---- MODULE Spec2Model ----
(***************************************************************************)
(* Item ingestion pipeline of jewelry-infra: image grouping, AI enrichment *)
(* (synchronous and batch), sequential identifier allocation and catalog   *)
(* creation, as implemented in src/src/handlers/process-items.ts and       *)
(* src/src/handlers/items.ts, and the management of batch jobs in          *)
(* src/src/handlers/batch-management.ts.                                   *)
(*                                                                         *)
(* JavaScript values are modelled as follows.  An optional value           *)
(* (undefined or present) is a sequence of length at most one: <<>> is     *)
(* undefined, <<v>> is the value v.  A template string is the tuple of its *)
(* parts (`item_${index}` is <<"item_", index>>).  Arrays are sequences,   *)
(* so the JavaScript position k is the TLA+ position k + 1.                *)
(***************************************************************************)
EXTENDS Integers, Sequences, FiniteSets, TLC

VARIABLES
    phase,          \* which sub-system the behaviour exercises: "group", "create", "stage", "manage"
    gIn,            \* groupImages: the arguments of the call
    gOut,           \* groupImages: <<>> before the call, <<result>> after it
    counterTable,   \* COUNTER_TABLE row (GLOBAL, ITEM): <<>> when absent, <<count>> otherwise
    itemsTable,     \* ITEMS_TABLE: item_id -> item row
    imagesTable,    \* IMAGES_TABLE: image_id -> image row
    inv,            \* the invocations (one Lambda execution each): id -> local state
    allocLog,       \* allocator returns in order: [id |-> returned value, by |-> invocation]
    allocFailures,  \* number of allocator calls that threw
    deletes,        \* number of DELETE /items/{itemId} requests served
    initialCount,   \* the counter's count when the behaviour starts (0 when the row is absent)
    cachedApiKey,   \* the module variable of the process: <<>> until a fetch succeeds
    stage,          \* the staging request the process is serving: its local state
    effects,        \* external calls issued for that request, in order
    served,         \* requests the process has received
    mgmt,           \* the batch-management request the process is serving: its local state
    written         \* the puts applied for creations: [by, i, j], row j of record i (0: the item row)

vars == <<phase, gIn, gOut, counterTable, itemsTable, imagesTable, inv, allocLog,
          allocFailures, deletes, initialCount, cachedApiKey, stage, effects, served,
          mgmt, written>>

\* The variables of groupImages' call, of the catalog and of staging.
pureVars == <<phase, gIn, gOut>>
catalogVars == <<counterTable, itemsTable, imagesTable, inv, allocLog, allocFailures,
                 deletes, initialCount, written>>
stageVars == <<cachedApiKey, stage, effects, served>>
manageVars == <<mgmt>>

----------------------------------------------------------------------------
(* Bounds of the model *)

MaxImages == 6      \* longest flat image list handed to groupImages
MaxCount == 3       \* largest num_items / views_per_item tried
MaxItems == 2       \* most staged items in one creation request
MaxInitialCount == 1 \* the count the counter row of a table in use starts with
MaxAllocCalls == 3  \* allocator calls issued in one behaviour, over all invocations
MaxDeletes == 1     \* DELETE requests served in one behaviour

----------------------------------------------------------------------------
(* JavaScript helpers *)

None == <<>>
Some(v) == <<v>>

Min(a, b) == IF a < b THEN a ELSE b
Max(a, b) == IF a > b THEN a ELSE b

\* Array.prototype.slice(start, end): a negative index counts from the end,
\* both indices are clamped to [0, length], the result is empty when start >= end.
SliceIndex(len, i) == IF i < 0 THEN Max(len + i, 0) ELSE Min(i, len)

Slice(arr, start, end) ==
    LET s == SliceIndex(Len(arr), start)
        e == SliceIndex(Len(arr), end)
    IN  IF s >= e THEN <<>> ELSE [i \in 1..(e - s) |-> arr[s + i]]

\* An uploaded image reference {s3Key, index}; the image at JavaScript position i.
ImageInfo(i) == [s3Key |-> <<"key", i>>, index |-> i]

ImagesOfLength(n) == [i \in 1..n |-> ImageInfo(i - 1)]

----------------------------------------------------------------------------
(* ImageGrouper *)

\* The interleaved policy of an earlier revision: image i goes to item i mod numItems.
groupImagesInterleaved(images, numItems, viewsPerItem) ==
    IF numItems <= 0 THEN <<>>
    ELSE [g \in 1..numItems |->
            [item_index |-> g - 1,
             images |-> LET idx == {i \in 1..Len(images) : (i - 1) % numItems = g - 1}
                            nth[n \in 0..Cardinality(idx)] ==
                                IF n = 0 THEN 0
                                ELSE CHOOSE i \in idx : i > nth[n - 1] /\
                                        \A j \in idx : j > nth[n - 1] => i <= j
                        IN  [n \in 1..Cardinality(idx) |-> images[nth[n]]]]]

\* for (itemNum = 0; itemNum < numItems; itemNum++)
\*     groups.push({item_index: itemNum, images: images.slice(start, start + viewsPerItem)})
groupImages(images, numItems, viewsPerItem) ==
    IF numItems <= 0 THEN <<>>
    ELSE [g \in 1..numItems |->
            [item_index |-> g - 1,
             images |-> Slice(images, (g - 1) * viewsPerItem,
                              (g - 1) * viewsPerItem + viewsPerItem)]]

\* The arguments tried: every image list up to MaxImages with every pair of
\* counts from -1 to MaxCount, whether or not the counts match the list.
GroupInputs ==
    {[images |-> ImagesOfLength(n), numItems |-> a, viewsPerItem |-> b] :
        n \in 0..MaxImages, a \in (-1)..MaxCount, b \in (-1)..MaxCount}

\* The call groupImages(images, num_items, views_per_item).
callGroupImages ==
    /\ phase = "group" /\ gOut = None
    /\ gOut' = Some(groupImages(gIn.images, gIn.numItems, gIn.viewsPerItem))
    /\ UNCHANGED <<phase, gIn, catalogVars, stageVars, manageVars>>

----------------------------------------------------------------------------
(* SequentialIdAllocator: the counter row and the two allocator functions *)

\* Two Lambda invocations run concurrently, each serving one request.
Invocations == {"invocation-1", "invocation-2"}

\* Math.floor(Date.now() / 1000): the seconds at which requests arrive.
Seconds == {1700000000}

\* Math.random().toString(36).substr(2, 9): two draws are equal or differ.
RandomSuffixes == {"suffix-a", "suffix-b"}

\* The allocator calls issued so far; a behaviour issues at most MaxAllocCalls.
AllocCalls == Len(allocLog) + allocFailures

\* The count stored in the row; an absent row and an absent attribute count as 0 for ADD.
CountOf(row) == IF row = None THEN 0 ELSE row[1]

\* A SET in place of the ADD: the row is overwritten with the increment.
AddCountOverwrites(row, inc) == Some(inc)

\* UpdateExpression 'ADD #count :inc' on the row (GLOBAL, ITEM): one atomic
\* read-modify-write inside the store, creating the row when it is absent.
AddCount(row, inc) == Some(CountOf(row) + inc)

\* What dynamodb.update(...).promise() resolves to with ReturnValues
\* 'UPDATED_NEW': the Attributes of the response, None when the response
\* carries no Attributes.
UpdatedNew(row) == Some([count |-> CountOf(row)])

\* `response.Attributes?.count || 1`
ReturnedId(attributes) ==
    IF attributes = None THEN 1
    ELSE IF attributes[1].count = 0 THEN 1 ELSE attributes[1].count

----------------------------------------------------------------------------
(* CatalogWriter: POST .../create *)

Truthy(opt) == opt # None /\ opt[1] # ""

\* A reviewed staged item as the caller sends it; item k has one image when k
\* is even and two when k is odd.
StagedItem(k) ==
    [item_index |-> k,
     images |-> [n \in 1..(1 + (k % 2)) |-> <<"key", k, n>>],
     title |-> <<"title", k>>,
     description |-> <<"description", k>>,
     value_estimate |-> [min_value |-> 10 * (k + 1), max_value |-> 20 * (k + 1),
                         currency |-> "USD"],
     metadata |-> [weight_grams |-> k, markings |-> <<"14K">>]]

StagedItems(n) == [k \in 1..n |-> StagedItem(k - 1)]

\* The creation request bodies tried: every item count up to MaxItems with a
\* caller and an auction, and the requests that lack one of the fields.
CreateBodies ==
    {[items |-> Some(StagedItems(n)), created_by |-> Some("alice"),
      auction_id |-> Some("auction-1")] : n \in 0..MaxItems}
    \cup {[items |-> Some(StagedItems(1)), created_by |-> Some("bob"), auction_id |-> Some("")],
          [items |-> Some(StagedItems(MaxItems)), created_by |-> None, auction_id |-> None],
          [items |-> Some(StagedItems(1)), created_by |-> Some(""), auction_id |-> None],
          [items |-> None, created_by |-> Some("alice"), auction_id |-> None]}

\* Local state of an invocation: the route it serves, where it stands (pc), the
\* parsed request body, `now`, the loop positions i (item) and j (image), the
\* Attributes of the last counter update, the identifier held, the items pushed
\* to createdItems and the response returned.
Local(route, body, now, pc, response) ==
    [route |-> route, pc |-> pc, body |-> body, now |-> now, i |-> 1, j |-> 1,
     attributes |-> None, itemId |-> None, createdItems |-> <<>>, response |-> response]

Idle == Local("none", None, 0, "idle", None)

\* Local state of handleStageItems: the revision running, where it stands, the
\* body, the groups, the loop position k, the items pushed, the batch
\* requests, the step to resume after the credential fetch, the file id and
\* the response.
StageLocal(rev, body, pc, response) ==
    [rev |-> rev, pc |-> pc, body |-> body, groups |-> <<>>, k |-> 1, items |-> <<>>,
     batchRequests |-> <<>>, resume |-> "", inputFileId |-> None, response |-> response]

StageIdle == StageLocal("batch", None, "idle", None)

\* Local state of the batch-management handler: the request, where it stands,
\* the step to resume after the credential fetch, the job retrieved and the
\* response.
ManageLocal(request, pc, response) ==
    [request |-> request, pc |-> pc, resume |-> "", batch |-> None, response |-> response]

ManageIdle == ManageLocal(None, "idle", None)

\* A row built with updated_at one second after created_at.
itemDataStaleUpdatedAt(item, itemId, now, created_by, auction_id) ==
    [item_id |-> itemId, item_index |-> item.item_index, metadata |-> item.metadata,
     images |-> item.images, title |-> item.title, description |-> item.description,
     value_estimate |-> item.value_estimate, created_at |-> now, updated_at |-> now + 1,
     created_by |-> created_by[1]]

\* const itemData: ItemData = {...}; if (auction_id) itemData.auction_id = auction_id
itemData(item, itemId, now, created_by, auction_id) ==
    LET base == [item_id |-> itemId, item_index |-> item.item_index,
                 metadata |-> item.metadata, images |-> item.images,
                 title |-> item.title, description |-> item.description,
                 value_estimate |-> item.value_estimate, created_at |-> now,
                 updated_at |-> now, created_by |-> created_by[1]]
    IN  IF Truthy(auction_id) THEN base @@ [auction_id |-> auction_id[1]] ELSE base

\* image_id: `img_${now}_${Math.random().toString(36).substr(2, 9)}`
imageId(now, rand) == <<"img_", now, "_", rand>>

\* An image row that takes the auction_id of the request whenever the field is
\* present, empty or not.
imageDataAnyAuction(key, itemId, now, rand, auction_id) ==
    LET base == [image_id |-> imageId(now, rand), item_id |-> itemId,
                 s3_key_original |-> key, created_at |-> now]
    IN  IF auction_id # None THEN base @@ [auction_id |-> auction_id[1]] ELSE base

\* const imageData: ImageData = {...}; if (auction_id) imageData.auction_id = auction_id
imageData(key, itemId, now, rand, auction_id) ==
    LET base == [image_id |-> imageId(now, rand), item_id |-> itemId,
                 s3_key_original |-> key, created_at |-> now]
    IN  IF Truthy(auction_id) THEN base @@ [auction_id |-> auction_id[1]] ELSE base

\* dynamodb.put: the row replaces whatever the key held.
Put(table, key, row) == [k \in DOMAIN table \cup {key} |-> IF k = key THEN row ELSE table[k]]

\* The rejection of an async function that nothing catches: handleCreateItems
\* has no try/catch and handler returns its promise without awaiting it.
Rejected(message) == Some([statusCode |-> 500, thrown |-> TRUE, error |-> message])

\* A validation that tests items only.
createValidationItemsOnly(body) ==
    IF body.items = None \/ Len(body.items[1]) = 0
    THEN Some([statusCode |-> 400, error |-> "No items provided."])
    ELSE None

\* if (!items?.length) return 400; if (!created_by) return 400: the response
\* of the validations, None when the request passes them.
createValidation(body) ==
    IF body.items = None \/ Len(body.items[1]) = 0
    THEN Some([statusCode |-> 400, error |-> "No items provided."])
    ELSE IF ~Truthy(body.created_by)
    THEN Some([statusCode |-> 400, error |-> "created_by is required."])
    ELSE None

\* handleCreateItems up to its first await: the two validations, then `now`.
handleCreateItems(p, body, now) ==
    /\ inv[p].pc = "idle"
    /\ inv' = [inv EXCEPT ![p] =
         IF createValidation(body) # None
         THEN Local("create", body, 0, "done", createValidation(body))
         ELSE Local("create", body, now, "generateItemId", None)]
    /\ UNCHANGED <<pureVars, manageVars, stageVars, counterTable, itemsTable, imagesTable, allocLog,
                   allocFailures, deletes, initialCount, written>>

\* A loop that writes the image rows of a record without its item row.
generateItemIdThenImages(p) ==
    /\ inv[p].route = "create" /\ inv[p].pc = "generateItemId"
    /\ AllocCalls < MaxAllocCalls
    /\ counterTable' = AddCount(counterTable, 1)
    /\ LET attributes == UpdatedNew(counterTable')
           id == ReturnedId(attributes)
       IN  /\ inv' = [inv EXCEPT ![p].attributes = attributes, ![p].itemId = Some(id),
                                 ![p].pc = "putImage", ![p].j = 1]
           /\ allocLog' = Append(allocLog, [id |-> id, by |-> p])
    /\ UNCHANGED <<pureVars, manageVars, stageVars, itemsTable, imagesTable, allocFailures,
                   deletes, initialCount, written>>

\* await generateItemId() resolving: the atomic ADD and the returned count.
generateItemId(p) ==
    /\ inv[p].route = "create" /\ inv[p].pc = "generateItemId"
    /\ AllocCalls < MaxAllocCalls
    /\ counterTable' = AddCount(counterTable, 1)
    /\ LET attributes == UpdatedNew(counterTable')
           id == ReturnedId(attributes)
       IN  /\ inv' = [inv EXCEPT ![p].attributes = attributes, ![p].itemId = Some(id),
                                 ![p].pc = "putItem"]
           /\ allocLog' = Append(allocLog, [id |-> id, by |-> p])
    /\ UNCHANGED <<pureVars, manageVars, stageVars, itemsTable, imagesTable, allocFailures, deletes, initialCount, written>>

\* await generateItemId() rejecting: the store is unreachable, or the update
\* was applied and its response lost.  The rejection leaves handleCreateItems.
generateItemIdThrows(p, applied) ==
    /\ inv[p].route = "create" /\ inv[p].pc = "generateItemId"
    /\ AllocCalls < MaxAllocCalls
    /\ counterTable' = IF applied THEN AddCount(counterTable, 1) ELSE counterTable
    /\ inv' = [inv EXCEPT ![p].pc = "done", ![p].response = Rejected("update failed")]
    /\ allocFailures' = allocFailures + 1
    /\ UNCHANGED <<pureVars, manageVars, stageVars, itemsTable, imagesTable, allocLog, deletes, initialCount, written>>

\* createdItems.push(itemData), then the next item or the 201 response.
Advance(l, row) ==
    LET created == Append(l.createdItems, row)
    IN  IF l.i = Len(l.body.items[1])
        THEN [l EXCEPT !.createdItems = created, !.pc = "done",
                       !.response = Some([statusCode |-> 201, items |-> created])]
        ELSE [l EXCEPT !.createdItems = created, !.pc = "generateItemId",
                       !.i = l.i + 1, !.j = 1, !.itemId = None, !.attributes = None]

CurrentItem(l) == l.body.items[1][l.i]

CurrentRow(l) == itemData(CurrentItem(l), l.itemId[1], l.now, l.body.created_by,
                          l.body.auction_id)

\* await dynamodb.put({TableName: ITEMS_TABLE, Item: itemData}) resolving.
createPutItem(p) ==
    /\ inv[p].route = "create" /\ inv[p].pc = "putItem"
    /\ LET l == inv[p]
           row == CurrentRow(l)
       IN  /\ itemsTable' = Put(itemsTable, row.item_id, row)
           /\ inv' = [inv EXCEPT ![p] =
                IF Len(CurrentItem(l).images) = 0 THEN Advance(l, row)
                ELSE [l EXCEPT !.pc = "putImage", !.j = 1]]
    /\ written' = written \cup {[by |-> p, i |-> inv[p].i, j |-> 0]}
    /\ UNCHANGED <<pureVars, manageVars, stageVars, counterTable, imagesTable, allocLog, allocFailures,
                   deletes, initialCount>>

\* The item put rejecting, with the row written or not.
createPutItemThrows(p, applied) ==
    /\ inv[p].route = "create" /\ inv[p].pc = "putItem"
    /\ LET row == CurrentRow(inv[p])
       IN  itemsTable' = IF applied THEN Put(itemsTable, row.item_id, row) ELSE itemsTable
    /\ inv' = [inv EXCEPT ![p].pc = "done", ![p].response = Rejected("put failed")]
    /\ written' = IF applied THEN written \cup {[by |-> p, i |-> inv[p].i, j |-> 0]} ELSE written
    /\ UNCHANGED <<pureVars, manageVars, stageVars, counterTable, imagesTable, allocLog, allocFailures,
                   deletes, initialCount>>

CurrentImage(l, rand) ==
    imageData(CurrentItem(l).images[l.j], l.itemId[1], l.now, rand, l.body.auction_id)

\* await dynamodb.put({TableName: IMAGES_TABLE, Item: imageData}) resolving.
createPutImage(p, rand) ==
    /\ inv[p].route = "create" /\ inv[p].pc = "putImage"
    /\ LET l == inv[p]
           img == CurrentImage(l, rand)
       IN  /\ imagesTable' = Put(imagesTable, img.image_id, img)
           /\ inv' = [inv EXCEPT ![p] =
                IF l.j = Len(CurrentItem(l).images) THEN Advance(l, CurrentRow(l))
                ELSE [l EXCEPT !.j = l.j + 1]]
    /\ written' = written \cup {[by |-> p, i |-> inv[p].i, j |-> inv[p].j]}
    /\ UNCHANGED <<pureVars, manageVars, stageVars, counterTable, itemsTable, allocLog, allocFailures,
                   deletes, initialCount>>

\* An image put whose rejection is swallowed: the loop goes on with the next image.
createPutImageThrowsContinues(p, applied, rand) ==
    /\ inv[p].route = "create" /\ inv[p].pc = "putImage"
    /\ LET l == inv[p]
           img == CurrentImage(l, rand)
       IN  /\ imagesTable' = IF applied THEN Put(imagesTable, img.image_id, img)
                              ELSE imagesTable
           /\ inv' = [inv EXCEPT ![p] =
                IF l.j = Len(CurrentItem(l).images) THEN Advance(l, CurrentRow(l))
                ELSE [l EXCEPT !.j = l.j + 1]]
    /\ written' = IF applied THEN written \cup {[by |-> p, i |-> inv[p].i, j |-> inv[p].j]}
                ELSE written
    /\ UNCHANGED <<pureVars, manageVars, stageVars, counterTable, itemsTable, allocLog,
                   allocFailures, deletes, initialCount>>

\* The image put rejecting, with the row written or not.
createPutImageThrows(p, applied, rand) ==
    /\ inv[p].route = "create" /\ inv[p].pc = "putImage"
    /\ LET img == CurrentImage(inv[p], rand)
       IN  imagesTable' = IF applied THEN Put(imagesTable, img.image_id, img)
                          ELSE imagesTable
    /\ inv' = [inv EXCEPT ![p].pc = "done", ![p].response = Rejected("put failed")]
    /\ written' = IF applied THEN written \cup {[by |-> p, i |-> inv[p].i, j |-> inv[p].j]}
                ELSE written
    /\ UNCHANGED <<pureVars, manageVars, stageVars, counterTable, itemsTable, allocLog, allocFailures,
                   deletes, initialCount>>

----------------------------------------------------------------------------
(* Single-item creation and deletion: src/src/handlers/items.ts *)

\* The bodies of POST /items tried: no body, and one item with no auction.
PostBodies ==
    {None,
     Some([auction_id |-> None, marker_id |-> "marker-1", item_title |-> "ring",
           description |-> "a ring", created_by |-> "carol"])}

buildResponse(statusCode, data) == Some([statusCode |-> statusCode] @@ data)

\* POST /items up to its first await.
postItem(p, body, now) ==
    /\ inv[p].pc = "idle"
    /\ inv' = [inv EXCEPT ![p] =
         IF body = None
         THEN Local("postItem", body, 0, "done",
                    buildResponse(400, [error |-> "Request body required"]))
         ELSE Local("postItem", body, now, "generateSequentialId", None)]
    /\ UNCHANGED <<pureVars, manageVars, stageVars, counterTable, itemsTable, imagesTable, allocLog,
                   allocFailures, deletes, initialCount, written>>

\* await generateSequentialId(log) resolving.
generateSequentialId(p) ==
    /\ inv[p].route = "postItem" /\ inv[p].pc = "generateSequentialId"
    /\ AllocCalls < MaxAllocCalls
    /\ counterTable' = AddCount(counterTable, 1)
    /\ LET attributes == UpdatedNew(counterTable')
           newId == ReturnedId(attributes)
       IN  /\ inv' = [inv EXCEPT ![p].attributes = attributes, ![p].itemId = Some(newId),
                                 ![p].pc = "putItem"]
           /\ allocLog' = Append(allocLog, [id |-> newId, by |-> p])
    /\ UNCHANGED <<pureVars, manageVars, stageVars, itemsTable, imagesTable, allocFailures, deletes, initialCount, written>>

\* generateSequentialId rethrows; the handler's catch answers 500.
generateSequentialIdThrows(p, applied) ==
    /\ inv[p].route = "postItem" /\ inv[p].pc = "generateSequentialId"
    /\ AllocCalls < MaxAllocCalls
    /\ counterTable' = IF applied THEN AddCount(counterTable, 1) ELSE counterTable
    /\ inv' = [inv EXCEPT ![p].pc = "done",
                          ![p].response = buildResponse(500, [error |-> "Internal Server Error"])]
    /\ allocFailures' = allocFailures + 1
    /\ UNCHANGED <<pureVars, manageVars, stageVars, itemsTable, imagesTable, allocLog, deletes, initialCount, written>>

\* Item: {item_id, auction_id: auction_id || null, marker_id, item_title, ...}
postItemRow(l) ==
    LET b == l.body[1]
    IN  [item_id |-> l.itemId[1],
         auction_id |-> IF Truthy(b.auction_id) THEN b.auction_id ELSE None,
         marker_id |-> b.marker_id, item_title |-> b.item_title,
         description |-> b.description, created_by |-> b.created_by,
         created_at |-> <<"iso", l.now>>, updated_at |-> <<"iso", l.now>>]

\* await dynamo.put({TableName: ITEMS_TABLE, Item: {...}}) resolving, then 201.
postPutItem(p) ==
    /\ inv[p].route = "postItem" /\ inv[p].pc = "putItem"
    /\ LET row == postItemRow(inv[p])
       IN  /\ itemsTable' = Put(itemsTable, row.item_id, row)
           /\ inv' = [inv EXCEPT ![p].pc = "done",
                        ![p].response = buildResponse(201, [message |-> "Item created",
                                                            item_id |-> row.item_id])]
    /\ written' = written \cup {[by |-> p, i |-> 1, j |-> 0]}
    /\ UNCHANGED <<pureVars, manageVars, stageVars, counterTable, imagesTable, allocLog, allocFailures,
                   deletes, initialCount>>

\* The put rejecting, with the row written or not; the handler's catch answers 500.
postPutItemThrows(p, applied) ==
    /\ inv[p].route = "postItem" /\ inv[p].pc = "putItem"
    /\ LET row == postItemRow(inv[p])
       IN  itemsTable' = IF applied THEN Put(itemsTable, row.item_id, row) ELSE itemsTable
    /\ inv' = [inv EXCEPT ![p].pc = "done",
                          ![p].response = buildResponse(500, [error |-> "Internal Server Error"])]
    /\ written' = IF applied THEN written \cup {[by |-> p, i |-> 1, j |-> 0]} ELSE written
    /\ UNCHANGED <<pureVars, manageVars, stageVars, counterTable, imagesTable, allocLog, allocFailures,
                   deletes, initialCount>>

\* DELETE /items/{itemId}: dynamo.delete on the item row; the counter and the
\* image rows are not touched.
deleteItem(itemId) ==
    /\ deletes < MaxDeletes
    /\ itemId \in DOMAIN itemsTable
    /\ itemsTable' = [k \in DOMAIN itemsTable \ {itemId} |-> itemsTable[k]]
    /\ deletes' = deletes + 1
    /\ UNCHANGED <<pureVars, manageVars, stageVars, counterTable, imagesTable, inv, allocLog,
                   allocFailures, initialCount, written>>

----------------------------------------------------------------------------
(* The creation pipeline under concurrent invocations *)

EmptyTable == [k \in {} |-> None]

InitCreate ==
    /\ phase = "create"
    /\ gIn = None /\ gOut = None
    /\ counterTable \in {None, Some(MaxInitialCount)}     \* a new table, or one in use
    /\ initialCount = CountOf(counterTable)
    /\ itemsTable = EmptyTable
    /\ imagesTable = EmptyTable
    /\ inv = [p \in Invocations |-> Idle]
    /\ allocLog = <<>>
    /\ allocFailures = 0
    /\ deletes = 0
    /\ cachedApiKey = None /\ stage = StageIdle /\ effects = <<>> /\ served = 0
    /\ mgmt = ManageIdle /\ written = {}

Init == InitCreate

Next ==
    \/ \E p \in Invocations, body \in CreateBodies, now \in Seconds :
            handleCreateItems(p, body, now)
    \/ \E p \in Invocations : generateItemId(p)
    \/ \E p \in Invocations, applied \in BOOLEAN : generateItemIdThrows(p, applied)
    \/ \E p \in Invocations : createPutItem(p)
    \/ \E p \in Invocations, applied \in BOOLEAN : createPutItemThrows(p, applied)
    \/ \E p \in Invocations, rand \in RandomSuffixes : createPutImage(p, rand)
    \/ \E p \in Invocations, applied \in BOOLEAN, rand \in RandomSuffixes :
            createPutImageThrows(p, applied, rand)
    \/ \E p \in Invocations, body \in PostBodies, now \in Seconds : postItem(p, body, now)
    \/ \E p \in Invocations : generateSequentialId(p)
    \/ \E p \in Invocations, applied \in BOOLEAN : generateSequentialIdThrows(p, applied)
    \/ \E p \in Invocations : postPutItem(p)
    \/ \E p \in Invocations, applied \in BOOLEAN : postPutItemThrows(p, applied)
    \/ \E itemId \in DOMAIN itemsTable : deleteItem(itemId)

Spec == Init /\ [][Next]_vars

----------------------------------------------------------------------------
(* The same pipeline against a store whose update may answer without the   *)
(* Attributes that ReturnValues 'UPDATED_NEW' asks for: the case that      *)
(* `response.Attributes?.count || 1` provides for.                         *)

\* await generateItemId() resolving on a response that carries no count.
generateItemIdNoCount(p) ==
    /\ inv[p].route = "create" /\ inv[p].pc = "generateItemId"
    /\ AllocCalls < MaxAllocCalls
    /\ counterTable' = AddCount(counterTable, 1)
    /\ LET id == ReturnedId(None)
       IN  /\ inv' = [inv EXCEPT ![p].attributes = None, ![p].itemId = Some(id),
                                 ![p].pc = "putItem"]
           /\ allocLog' = Append(allocLog, [id |-> id, by |-> p])
    /\ UNCHANGED <<pureVars, manageVars, stageVars, itemsTable, imagesTable, allocFailures, deletes,
                   initialCount, written>>

\* await generateSequentialId(log) resolving on a response that carries no count.
generateSequentialIdNoCount(p) ==
    /\ inv[p].route = "postItem" /\ inv[p].pc = "generateSequentialId"
    /\ AllocCalls < MaxAllocCalls
    /\ counterTable' = AddCount(counterTable, 1)
    /\ LET newId == ReturnedId(None)
       IN  /\ inv' = [inv EXCEPT ![p].attributes = None, ![p].itemId = Some(newId),
                                 ![p].pc = "putItem"]
           /\ allocLog' = Append(allocLog, [id |-> newId, by |-> p])
    /\ UNCHANGED <<pureVars, manageVars, stageVars, itemsTable, imagesTable, allocFailures, deletes,
                   initialCount, written>>

NextDegraded ==
    \/ Next
    \/ \E p \in Invocations : generateItemIdNoCount(p)
    \/ \E p \in Invocations : generateSequentialIdNoCount(p)

SpecDegraded == Init /\ [][NextDegraded]_vars

----------------------------------------------------------------------------
(* Staging: POST .../stage.  process-items.ts holds two revisions of        *)
(* handleStageItems: the one with the batch mode, which returns the details *)
(* of generateItemDetails as they are ("batch"), and the earlier one, which *)
(* builds a staged item per group ("staged").                               *)

MaxStageRequests == 2   \* staging requests one process receives in a behaviour

Revisions == {"batch", "staged"}

\* !x for an optional number: undefined and 0 are falsy.
FalsyNumber(opt) == opt = None \/ opt[1] = 0

\* The request bodies tried: images absent or of any length up to MaxImages,
\* each count absent or from -1 to MaxCount, with and without caller metadata.
StageBodies ==
    [num_items : {None} \cup {Some(n) : n \in (-1)..MaxCount},
     views_per_item : {None} \cup {Some(n) : n \in (-1)..MaxCount},
     images : {None} \cup {Some(ImagesOfLength(n)) : n \in 0..MaxImages},
     metadata : {None, Some([markings |-> <<"caller">>, lot |-> "estate"])},
     use_batch : BOOLEAN]

\* A validation without the comparison of images.length with the product.
stageValidationNoCountCheck(body) ==
    IF body.images = None \/ Len(body.images[1]) = 0
    THEN Some([statusCode |-> 400, error |-> "No images provided."])
    ELSE IF FalsyNumber(body.num_items)
    THEN Some([statusCode |-> 400, error |-> "num_items is required."])
    ELSE IF FalsyNumber(body.views_per_item)
    THEN Some([statusCode |-> 400, error |-> "views_per_item is required."])
    ELSE None

\* The four validations of handleStageItems: the 400 response, None when the
\* request passes them.
stageValidation(body) ==
    IF body.images = None \/ Len(body.images[1]) = 0
    THEN Some([statusCode |-> 400, error |-> "No images provided."])
    ELSE IF FalsyNumber(body.num_items)
    THEN Some([statusCode |-> 400, error |-> "num_items is required."])
    ELSE IF FalsyNumber(body.views_per_item)
    THEN Some([statusCode |-> 400, error |-> "views_per_item is required."])
    ELSE IF Len(body.images[1]) # body.num_items[1] * body.views_per_item[1]
    THEN Some([statusCode |-> 400, error |-> "Expected images mismatch"])
    ELSE None

\* group.images.map(img => img.s3Key)
imageKeys(group) == [n \in DOMAIN group.images |-> group.images[n].s3Key]

DISCLAIMER_PHRASE ==
    "All photos represent the lot condition and may contain unseen imperfections in addition to the information provided. All items are described to the best of our abilities. Please communicate all questions and concerns prior to bidding. Please read our terms and conditions for more details. Good luck bidding."

\* The JSON object the model is asked for; the prompt of the "batch" revision
\* names the last field metadata, that of the "staged" revision discovered_metadata.
AiObject(rev, keys) ==
    LET common == [title |-> <<"AI title for", keys>>,
                   description |-> <<"AI description">>,
                   value_estimate |-> [min_value |-> 100, max_value |-> 200,
                                       currency |-> "USD"]]
        found == [weight_grams |-> 5, markings |-> <<"925">>]
    IN  IF rev = "batch" THEN common @@ [metadata |-> found]
        ELSE common @@ [discovered_metadata |-> found]

\* Message content is a sequence of tokens: white space, the two code fences,
\* one JSON object, or other text.
Ws == [token |-> "whitespace"]
FenceOpen == [token |-> "fence json"]    \* three backquotes and json
FenceClose == [token |-> "fence"]        \* three backquotes
JsonToken(obj) == [token |-> "json", value |-> obj]
Text == [token |-> "text"]

\* What fetch(chat/completions) can come to: a rejection, a non-success
\* status, and a success whose content is absent, bare JSON, fenced JSON,
\* fenced text or plain text.
AiResponses(rev, keys) ==
    {[rejected |-> TRUE, ok |-> FALSE, content |-> <<>>],
     [rejected |-> FALSE, ok |-> FALSE, content |-> <<Text>>],
     [rejected |-> FALSE, ok |-> TRUE, content |-> <<>>],
     [rejected |-> FALSE, ok |-> TRUE, content |-> <<JsonToken(AiObject(rev, keys))>>],
     [rejected |-> FALSE, ok |-> TRUE,
      content |-> <<Ws, FenceOpen, Ws, JsonToken(AiObject(rev, keys)), Ws, FenceClose, Ws>>],
     [rejected |-> FALSE, ok |-> TRUE, content |-> <<FenceOpen, Text, FenceClose>>],
     [rejected |-> FALSE, ok |-> TRUE, content |-> <<Text>>]}

\* String.prototype.trim on tokens.
RECURSIVE Trim(_)
Trim(c) ==
    IF c = <<>> THEN c
    ELSE IF Head(c) = Ws THEN Trim(Tail(c))
    ELSE IF c[Len(c)] = Ws THEN Trim(SubSeq(c, 1, Len(c) - 1))
    ELSE c

\* trim, drop a leading json fence, drop a trailing fence, trim.
cleanContent(content) ==
    LET t == Trim(content)
        a == IF t # <<>> /\ Head(t) = FenceOpen THEN Tail(t) ELSE t
        b == IF a # <<>> /\ a[Len(a)] = FenceClose THEN SubSeq(a, 1, Len(a) - 1) ELSE a
    IN  Trim(b)

\* JSON.parse: the object when the text is one JSON value, None when it throws.
JSONparse(c) == IF Len(c) = 1 /\ c[1].token = "json" THEN Some(c[1].value) ELSE None

\* The record returned from the catch of generateItemDetails.
fallbackDetails(rev) ==
    LET common == [title |-> <<"Untitled Item">>,
                   description |-> <<"Failed to generate description.">>,
                   value_estimate |-> [min_value |-> 0, max_value |-> 0, currency |-> "USD"]]
        empty == [weight_grams |-> None, markings |-> <<>>]
    IN  IF rev = "batch" THEN common @@ [metadata |-> empty]
        ELSE common @@ [discovered_metadata |-> empty]

\* generateItemDetails with no catch: a failed call leaves it as an exception.
generateItemDetailsRethrows(rev, response) ==
    IF response.rejected \/ ~response.ok \/ response.content = <<>>
       \/ JSONparse(cleanContent(response.content)) = None
    THEN [threw |-> TRUE, details |-> fallbackDetails(rev)]
    ELSE LET result == JSONparse(cleanContent(response.content))[1]
         IN  [threw |-> FALSE,
              details |-> [result EXCEPT !.description =
                                result.description \o <<"\n\n", DISCLAIMER_PHRASE>>]]

\* generateItemDetails from the fetch on: the try block on the response, the
\* fallback from the catch.  threw tells whether an exception leaves it.
generateItemDetails(rev, response) ==
    IF response.rejected \/ ~response.ok \/ response.content = <<>>
       \/ JSONparse(cleanContent(response.content)) = None
    THEN [threw |-> FALSE, details |-> fallbackDetails(rev)]
    ELSE LET result == JSONparse(cleanContent(response.content))[1]
         IN  [threw |-> FALSE,
              details |-> [result EXCEPT !.description =
                                result.description \o <<"\n\n", DISCLAIMER_PHRASE>>]]

\* Whether the call produced a JSON object: what the model did, apart from
\* what generateItemDetails makes of it.
AiSucceeded(response) ==
    /\ ~response.rejected /\ response.ok
    /\ JSONparse(cleanContent(response.content)) # None

\* {...metadata, ...(itemDetails.discovered_metadata || {})}: the later spread wins.
mergedMetadata(metadata, details) ==
    LET given == IF metadata = None THEN <<>> ELSE metadata[1]
    IN  IF "discovered_metadata" \in DOMAIN details
        THEN details.discovered_metadata @@ given
        ELSE given

\* The element pushed for a group: the details as they are in the "batch"
\* revision, the staged item built from them in the "staged" revision.
stagedItem(rev, group, details, metadata) ==
    IF rev = "batch" THEN details
    ELSE [item_index |-> group.item_index, images |-> imageKeys(group),
          title |-> details.title, description |-> details.description,
          value_estimate |-> details.value_estimate,
          metadata |-> mergedMetadata(metadata, details)]

imageUrl(key) ==
    [type |-> "image_url",
     image_url |-> [url |-> <<"https://", "BUCKET_NAME", ".s3.amazonaws.com/", key>>,
                    detail |-> "low"]]

\* A request tagged with the one-based position of its group.
batchRequestOneBased(group, index) ==
    [custom_id |-> <<"item_", index + 1>>, method |-> "POST",
     url |-> "/v1/chat/completions",
     body |-> [model |-> "gpt-4o-mini", max_tokens |-> 1000,
               messages |-> <<[role |-> "user",
                               content |-> <<[type |-> "text", text |-> "promptText"]>>
                                    \o [n \in DOMAIN group.images |->
                                            imageUrl(imageKeys(group)[n])]]>>]]

\* groups.map((group, index) => ({custom_id: `item_${index}`, ...}))
batchRequest(group, index) ==
    [custom_id |-> <<"item_", index>>, method |-> "POST",
     url |-> "/v1/chat/completions",
     body |-> [model |-> "gpt-4o-mini", max_tokens |-> 1000,
               messages |-> <<[role |-> "user",
                               content |-> <<[type |-> "text", text |-> "promptText"]>>
                                    \o [n \in DOMAIN group.images |->
                                            imageUrl(imageKeys(group)[n])]]>>]]

\* requests.map(req => JSON.stringify(req)).join('\n'): each request is one
\* line of text, a newline stands between two lines.
Newline == [newline |-> TRUE]
JSONstringify(req) == [line |-> req]

RECURSIVE jsonlContent(_)
jsonlContent(requests) ==
    IF requests = <<>> THEN <<>>
    ELSE IF Len(requests) = 1 THEN <<JSONstringify(requests[1])>>
    ELSE <<JSONstringify(requests[1]), Newline>> \o jsonlContent(Tail(requests))

\* A getOpenAIKey without the cache test: every call goes to the secret store.
withApiKeyAlwaysFetches(l, next) == [l EXCEPT !.pc = "getSecretValue", !.resume = next]

\* const apiKey = await getOpenAIKey(): straight on when the key is cached,
\* through the secret store otherwise.
withApiKey(l, next) ==
    IF cachedApiKey # None THEN [l EXCEPT !.pc = next]
    ELSE [l EXCEPT !.pc = "getSecretValue", !.resume = next]

\* An exception inside handleStageItems: the catch of the mode running in the
\* "batch" revision, a rejection of the handler in the "staged" revision.
stageThrows(l, message) ==
    [l EXCEPT !.pc = "done",
              !.response =
                IF l.rev = "staged" THEN Rejected(message)
                ELSE IF l.body.use_batch
                THEN Some([statusCode |-> 500, error |-> "Failed to create batch",
                           detail |-> message])
                ELSE Some([statusCode |-> 500, error |-> "Failed to process items",
                           detail |-> message])]

\* The 200 response of the synchronous path.
stageItemsResponse(l, items) ==
    [l EXCEPT !.pc = "done", !.items = items,
              !.response = Some([statusCode |-> 200, items |-> items])]

\* handleStageItems up to its first await: validation, grouping, and for the
\* batch mode the requests.
handleStageItems(rev, body) ==
    /\ phase = "stage"
    /\ stage.pc = "idle"
    /\ served < MaxStageRequests
    /\ served' = served + 1
    /\ effects' = <<>>
    /\ stage' =
        IF stageValidation(body) # None
        THEN StageLocal(rev, body, "done", stageValidation(body))
        ELSE LET groups == groupImages(body.images[1], body.num_items[1],
                                        body.views_per_item[1])
                 l == [StageLocal(rev, body, "idle", None) EXCEPT !.groups = groups]
             IN  IF rev = "batch" /\ body.use_batch
                 THEN withApiKey([l EXCEPT !.batchRequests =
                                    [g \in DOMAIN groups |-> batchRequest(groups[g], g - 1)]],
                                 "putObject")
                 ELSE IF groups = <<>> THEN stageItemsResponse(l, <<>>)
                 ELSE withApiKey(l, "chat")
    /\ UNCHANGED <<pureVars, manageVars, catalogVars, cachedApiKey>>

\* What secretsManager.getSecretValue can come to: a rejection, no
\* SecretString, a secret without api_key or with an empty one, a secret with it.
SecretResponses ==
    {[rejected |-> TRUE, SecretString |-> None],
     [rejected |-> FALSE, SecretString |-> None],
     [rejected |-> FALSE, SecretString |-> Some([api_key |-> None])],
     [rejected |-> FALSE, SecretString |-> Some([api_key |-> Some("")])],
     [rejected |-> FALSE, SecretString |-> Some([api_key |-> Some("sk-live")])]}

\* A getOpenAIKey without its two checks: an absent value or field is passed
\* on as the key.
getOpenAIKeyUnchecked(secret) ==
    /\ phase = "stage" /\ stage.pc = "getSecretValue"
    /\ LET found == /\ ~secret.rejected /\ secret.SecretString # None
                    /\ Truthy(secret.SecretString[1].api_key)
       IN  /\ effects' = Append(effects, [op |-> "getSecretValue", ok |-> found])
           /\ cachedApiKey' = IF found THEN secret.SecretString[1].api_key ELSE cachedApiKey
           /\ stage' = IF secret.rejected THEN stageThrows(stage, "getSecretValue failed")
                       ELSE [stage EXCEPT !.pc = stage.resume]
    /\ UNCHANGED <<pureVars, manageVars, catalogVars, served>>

\* A getOpenAIKey that assigns the cache before its check of api_key.
getOpenAIKeyCachesFirst(secret) ==
    /\ phase = "stage" /\ stage.pc = "getSecretValue"
    /\ LET found == /\ ~secret.rejected /\ secret.SecretString # None
                    /\ Truthy(secret.SecretString[1].api_key)
       IN  /\ effects' = Append(effects, [op |-> "getSecretValue", ok |-> found])
           /\ cachedApiKey' = IF secret.rejected \/ secret.SecretString = None
                              THEN cachedApiKey
                              ELSE secret.SecretString[1].api_key
           /\ stage' = IF found THEN [stage EXCEPT !.pc = stage.resume]
                       ELSE IF secret.rejected THEN stageThrows(stage, "getSecretValue failed")
                       ELSE IF secret.SecretString = None
                       THEN stageThrows(stage, "No API key found in secret")
                       ELSE stageThrows(stage, "api_key not found in secret")
    /\ UNCHANGED <<pureVars, manageVars, catalogVars, served>>

\* getOpenAIKey past the cache test: the fetch, the two checks, the assignment.
getOpenAIKey(secret) ==
    /\ phase = "stage" /\ stage.pc = "getSecretValue"
    /\ LET found == /\ ~secret.rejected /\ secret.SecretString # None
                    /\ Truthy(secret.SecretString[1].api_key)
       IN  /\ effects' = Append(effects, [op |-> "getSecretValue", ok |-> found])
           /\ cachedApiKey' = IF found THEN secret.SecretString[1].api_key ELSE cachedApiKey
           /\ stage' = IF found THEN [stage EXCEPT !.pc = stage.resume]
                       ELSE IF secret.rejected THEN stageThrows(stage, "getSecretValue failed")
                       ELSE IF secret.SecretString = None
                       THEN stageThrows(stage, "No API key found in secret")
                       ELSE stageThrows(stage, "api_key not found in secret")
    /\ UNCHANGED <<pureVars, manageVars, catalogVars, served>>

\* The calls of all the groups left issued together and awaited as one, in
\* place of a loop that awaits each call.
chatCompletionAllAtOnce(response) ==
    /\ phase = "stage" /\ stage.pc = "chat"
    /\ LET r == generateItemDetails(stage.rev, response)
           left == [n \in 1..(Len(stage.groups) - stage.k + 1) |-> stage.groups[stage.k + n - 1]]
           items == stage.items \o
                    [n \in DOMAIN left |->
                        stagedItem(stage.rev, left[n], r.details, stage.body.metadata)]
       IN  /\ effects' = effects \o
                    [n \in DOMAIN left |->
                        [op |-> "chat.completions", keys |-> imageKeys(left[n]),
                         ok |-> AiSucceeded(response)]]
           /\ stage' = stageItemsResponse(stage, items)
    /\ UNCHANGED <<pureVars, manageVars, catalogVars, cachedApiKey, served>>

\* A turn of the loop that takes an identifier from the counter for the item
\* it stages.
chatCompletionAllocates(response) ==
    /\ phase = "stage" /\ stage.pc = "chat"
    /\ counterTable' = AddCount(counterTable, 1)
    /\ LET group == stage.groups[stage.k]
           r == generateItemDetails(stage.rev, response)
           items == Append(stage.items,
                           stagedItem(stage.rev, group, r.details, stage.body.metadata)
                                @@ [item_id |-> CountOf(counterTable')])
       IN  /\ effects' = Append(effects, [op |-> "chat.completions",
                                          keys |-> imageKeys(group),
                                          ok |-> AiSucceeded(response)])
           /\ stage' = IF stage.k = Len(stage.groups)
                       THEN stageItemsResponse(stage, items)
                       ELSE [stage EXCEPT !.items = items, !.k = stage.k + 1]
    /\ UNCHANGED <<pureVars, manageVars, itemsTable, imagesTable, inv, allocLog,
                   allocFailures, deletes, initialCount, written, cachedApiKey, served>>

\* One turn of the loop over groups: the fetch of generateItemDetails, what it
\* returns, the push, then the next group or the 200 response.
chatCompletion(response) ==
    /\ phase = "stage" /\ stage.pc = "chat"
    /\ LET group == stage.groups[stage.k]
           r == generateItemDetails(stage.rev, response)
           items == Append(stage.items,
                           stagedItem(stage.rev, group, r.details, stage.body.metadata))
       IN  /\ effects' = Append(effects, [op |-> "chat.completions",
                                          keys |-> imageKeys(group),
                                          ok |-> AiSucceeded(response)])
           /\ stage' = IF r.threw THEN stageThrows(stage, "OpenAI API error")
                       ELSE IF stage.k = Len(stage.groups)
                       THEN stageItemsResponse(stage, items)
                       ELSE [stage EXCEPT !.items = items, !.k = stage.k + 1]
    /\ UNCHANGED <<pureVars, manageVars, catalogVars, cachedApiKey, served>>

\* One object put per batch request in place of one put of the whole blob.
putObjectPerRequest(ok) ==
    /\ phase = "stage" /\ stage.pc = "putObject"
    /\ effects' = Append(effects, [op |-> "s3.putObject", ok |-> ok,
                                   body |-> jsonlContent(stage.batchRequests)])
    /\ stage' = IF ~ok THEN stageThrows(stage, "putObject failed")
                ELSE IF stage.k < Len(stage.batchRequests)
                THEN [stage EXCEPT !.k = stage.k + 1]
                ELSE [stage EXCEPT !.pc = "files"]
    /\ UNCHANGED <<pureVars, manageVars, catalogVars, cachedApiKey, served>>

\* createBatchFile: await s3.putObject({Body: jsonlContent, ...}).
putObject(ok) ==
    /\ phase = "stage" /\ stage.pc = "putObject"
    /\ effects' = Append(effects, [op |-> "s3.putObject", ok |-> ok,
                                   body |-> jsonlContent(stage.batchRequests)])
    /\ stage' = IF ok THEN [stage EXCEPT !.pc = "files"]
                ELSE stageThrows(stage, "putObject failed")
    /\ UNCHANGED <<pureVars, manageVars, catalogVars, cachedApiKey, served>>

\* What a fetch of the files and batches endpoints can come to.
EndpointResponses ==
    {[rejected |-> TRUE, ok |-> FALSE], [rejected |-> FALSE, ok |-> FALSE],
     [rejected |-> FALSE, ok |-> TRUE]}

\* createBatchFile: the upload to /v1/files, the status check, data.id; then
\* createBatch starts with getOpenAIKey.
createBatchFile(response, id) ==
    /\ phase = "stage" /\ stage.pc = "files"
    /\ effects' = Append(effects, [op |-> "files.create", ok |-> response.ok, id |-> id])
    /\ stage' = IF response.ok
                THEN withApiKey([stage EXCEPT !.inputFileId = Some(id)], "batches")
                ELSE stageThrows(stage, "Failed to upload batch file")
    /\ UNCHANGED <<pureVars, manageVars, catalogVars, cachedApiKey, served>>

\* The job objects /v1/batches can answer a creation with.
NewBatches ==
    {[id |-> "batch-1", status |-> "validating"], [id |-> "batch-2", status |-> "in_progress"]}

\* createBatch: the POST to /v1/batches with input_file_id, the status check,
\* then the 200 response with the id and status of the job in the answer.
createBatch(response, batch) ==
    /\ phase = "stage" /\ stage.pc = "batches"
    /\ effects' = Append(effects, [op |-> "batches.create", ok |-> response.ok,
                                   input_file_id |-> stage.inputFileId,
                                   batch |-> batch])
    /\ stage' = IF response.ok
                THEN [stage EXCEPT !.pc = "done",
                        !.response = Some([statusCode |-> 200, batch_id |-> batch.id,
                                           status |-> batch.status,
                                           processing_mode |-> "batch"])]
                ELSE stageThrows(stage, "Failed to create batch")
    /\ UNCHANGED <<pureVars, manageVars, catalogVars, cachedApiKey, served>>

FileIds == {"file-1", "file-2"}

\* The response has been returned: the invocation ends, its locals are gone,
\* the process and its module variables stay for the next request.
invocationEnds ==
    /\ phase = "stage" /\ stage.pc = "done"
    /\ stage' = StageIdle
    /\ effects' = <<>>
    /\ UNCHANGED <<pureVars, manageVars, catalogVars, cachedApiKey, served>>

InitStage ==
    /\ phase = "stage"
    /\ gIn = None /\ gOut = None
    /\ counterTable = None /\ initialCount = 0
    /\ itemsTable = EmptyTable /\ imagesTable = EmptyTable
    /\ inv = [p \in Invocations |-> Idle]
    /\ allocLog = <<>> /\ allocFailures = 0 /\ deletes = 0
    /\ cachedApiKey = None /\ stage = StageIdle /\ effects = <<>> /\ served = 0
    /\ mgmt = ManageIdle /\ written = {}

NextStage ==
    \/ \E rev \in Revisions, body \in StageBodies : handleStageItems(rev, body)
    \/ \E secret \in SecretResponses : getOpenAIKey(secret)
    \/ /\ stage.pc = "chat"
       /\ \E response \in AiResponses(stage.rev, imageKeys(stage.groups[stage.k])) :
                chatCompletion(response)
    \/ \E ok \in BOOLEAN : putObject(ok)
    \/ \E response \in EndpointResponses, id \in FileIds : createBatchFile(response, id)
    \/ \E response \in EndpointResponses, batch \in NewBatches : createBatch(response, batch)
    \/ invocationEnds

SpecStage == InitStage /\ [][NextStage]_vars

----------------------------------------------------------------------------
(* Staging when a chat completion may never answer.  The fetch of          *)
(* generateItemDetails has no timeout and no abort signal; the one limit   *)
(* is the 30 seconds the function is deployed with, after which the        *)
(* runtime ends the invocation and its process.                            *)

\* The fetch of the group's chat completion stays pending for good.
chatNeverAnswers ==
    /\ phase = "stage" /\ stage.pc = "chat"
    /\ stage' = [stage EXCEPT !.pc = "pending"]
    /\ UNCHANGED <<pureVars, manageVars, catalogVars, cachedApiKey, effects, served>>

\* timeout: Duration.seconds(30): the invocation is ended with an error while
\* the handler still awaits; the process serves no further request.
lambdaTimeout ==
    /\ phase = "stage" /\ stage.pc = "pending"
    /\ stage' = [stage EXCEPT !.pc = "killed", !.response = Rejected("Task timed out")]
    /\ UNCHANGED <<pureVars, manageVars, catalogVars, cachedApiKey, effects, served>>

NextStageTimed == NextStage \/ chatNeverAnswers \/ lambdaTimeout

\* The runtime enforces its limit, and a response that is ready is returned;
\* nothing obliges the services to answer.
SpecStageTimed ==
    InitStage /\ [][NextStageTimed]_vars /\ WF_vars(lambdaTimeout) /\ WF_vars(invocationEnds)

----------------------------------------------------------------------------
(* Batch management: src/src/handlers/batch-management.ts, a Lambda of its *)
(* own with its own cachedApiKey.                                          *)

MaxManageRequests == 2  \* management requests one process receives in a behaviour
MaxBatchRequests == 2   \* most requests in a batch job whose results are read

\* The requests tried: the methods the handler admits and one it does not, and
\* a path for each branch of its routing.
ManageRequests ==
    [method : {"GET", "POST", "DELETE"},
     path : {"/batches", "/batches/{id}", "/batches/{id}/results", "/batches/{id}/cancel",
             "/other"}]

BatchStatuses ==
    {"validating", "failed", "in_progress", "finalizing", "completed", "expired",
     "cancelling", "cancelled"}

\* The job objects the service can answer a retrieval with: in any status,
\* without an output file, or with one and with each split of its requests
\* into completed and failed.
Batches ==
    {[id |-> "batch-1", status |-> st, output_file_id |-> None, error_file_id |-> None,
      request_counts |-> [total |-> n, completed |-> 0, failed |-> 0]] :
        st \in BatchStatuses, n \in 1..MaxBatchRequests}
    \cup
    UNION {{[id |-> "batch-1", status |-> st, output_file_id |-> Some("file-out"),
             error_file_id |-> IF f = 0 THEN None ELSE Some("file-err"),
             request_counts |-> [total |-> n, completed |-> n - f, failed |-> f]] :
                st \in BatchStatuses, f \in 0..n} : n \in 1..MaxBatchRequests}

\* The record of the service for request k of a job: a response whose body is
\* the chat completion of the request, or an error when the request failed.
BatchResponse(k, failed) ==
    [id |-> <<"batch_req_", k>>, custom_id |-> <<"item_", k>>,
     response |-> IF failed THEN None
                  ELSE Some([status_code |-> 200, request_id |-> <<"req_", k>>,
                             body |-> [choices |-> <<[message |-> [content |->
                                        <<JsonToken(AiObject("batch", <<"item_", k>>))>>]]>>]]),
     error |-> IF failed THEN Some([code |-> "server_error"]) ELSE None]

\* The increasing sequence of the members of a set of numbers.
RECURSIVE Sorted(_)
Sorted(set) ==
    IF set = {} THEN <<>>
    ELSE LET least == CHOOSE x \in set : \A y \in set : x <= y
         IN  <<least>> \o Sorted(set \ {least})

\* The content of the output file of a job of `total` requests of which those
\* in `failed` failed: one line per completed request, and one line per failed
\* request too when the service writes these to the output file rather than
\* to the error file; with or without a newline after the last line.
OutputFile(total, failed, failedInOutput, trailingNewline) ==
    LET listed == {k \in 0..(total - 1) : failedInOutput \/ k \notin failed}
        records == [n \in 1..Cardinality(listed) |->
                        BatchResponse(Sorted(listed)[n], Sorted(listed)[n] \in failed)]
    IN  jsonlContent(records) \o (IF trailingNewline THEN <<Newline>> ELSE <<>>)

\* content.split('\n'): the pieces between newlines, empty pieces included.
RECURSIVE Split(_, _)
Split(content, piece) ==
    IF content = <<>> THEN <<piece>>
    ELSE IF Head(content) = Newline THEN <<piece>> \o Split(Tail(content), <<>>)
    ELSE Split(Tail(content), Append(piece, Head(content)))

\* content.split('\n').filter(Boolean).map(line => JSON.parse(line)): None
\* when a JSON.parse throws.
parseResults(content) ==
    LET pieces == SelectSeq(Split(content, <<>>), LAMBDA piece : piece # <<>>)
    IN  IF \E n \in DOMAIN pieces : Len(pieces[n]) # 1 \/ "line" \notin DOMAIN pieces[n][1]
        THEN None
        ELSE Some([n \in DOMAIN pieces |-> pieces[n][1].line])

\* const apiKey = await getOpenAIKey() of batch-management.ts.
manageWithApiKey(l, next) ==
    IF cachedApiKey # None THEN [l EXCEPT !.pc = next]
    ELSE [l EXCEPT !.pc = "getSecretValue", !.resume = next]

\* An error answered with a success status and an empty list.
manageThrowsSwallowed(l, message) ==
    [l EXCEPT !.pc = "done", !.response = Some([statusCode |-> 200, body |-> <<>>])]

\* An exception inside the handler's try: its catch answers 500.
manageThrows(l, message) ==
    [l EXCEPT !.pc = "done",
              !.response = Some([statusCode |-> 500, error |-> "Internal server error",
                                 detail |-> message])]

manageResponds(l, body) ==
    [l EXCEPT !.pc = "done", !.response = Some([statusCode |-> 200, body |-> body])]

\* handler up to its first await: the method test and the routing on the path.
handler(request) ==
    /\ phase = "manage" /\ mgmt.pc = "idle"
    /\ served < MaxManageRequests
    /\ served' = served + 1
    /\ effects' = <<>>
    /\ mgmt' =
        LET l == ManageLocal(Some(request), "idle", None)
        IN  IF request.method \notin {"GET", "POST"}
            THEN ManageLocal(Some(request), "done",
                             Some([statusCode |-> 405, error |-> "Method not allowed"]))
            ELSE IF request.path = "/batches" THEN manageWithApiKey(l, "listBatches")
            ELSE IF request.path \in {"/batches/{id}", "/batches/{id}/results"}
            THEN manageWithApiKey(l, "getBatch")
            ELSE IF request.path = "/batches/{id}/cancel"
            THEN manageWithApiKey(l, "cancelBatch")
            ELSE ManageLocal(Some(request), "done",
                             Some([statusCode |-> 404, error |-> "Unknown operation"]))
    /\ UNCHANGED <<pureVars, catalogVars, cachedApiKey, stage>>

\* getOpenAIKey of batch-management.ts past the cache test.
manageGetOpenAIKey(secret) ==
    /\ phase = "manage" /\ mgmt.pc = "getSecretValue"
    /\ LET found == /\ ~secret.rejected /\ secret.SecretString # None
                    /\ Truthy(secret.SecretString[1].api_key)
       IN  /\ effects' = Append(effects, [op |-> "getSecretValue", ok |-> found])
           /\ cachedApiKey' = IF found THEN secret.SecretString[1].api_key ELSE cachedApiKey
           /\ mgmt' = IF found THEN [mgmt EXCEPT !.pc = mgmt.resume]
                      ELSE IF secret.rejected THEN manageThrows(mgmt, "getSecretValue failed")
                      ELSE IF secret.SecretString = None
                      THEN manageThrows(mgmt, "No API key found in secret")
                      ELSE manageThrows(mgmt, "api_key not found in secret")
    /\ UNCHANGED <<pureVars, catalogVars, stage, served>>

\* listBatches: the GET of /v1/batches, the status check, the list answered.
listBatches(response) ==
    /\ phase = "manage" /\ mgmt.pc = "listBatches"
    /\ effects' = Append(effects, [op |-> "batches.list", ok |-> response.ok])
    /\ mgmt' = IF response.ok THEN manageResponds(mgmt, [object |-> "list"])
               ELSE manageThrows(mgmt, "Failed to list batches")
    /\ UNCHANGED <<pureVars, catalogVars, cachedApiKey, stage, served>>

\* getBatch: the GET of /v1/batches/{id} and the status check.  The details
\* route answers the job; getBatchResults goes on to test output_file_id, and
\* with an output file to its own getOpenAIKey and the content fetch.
getBatch(response, batch) ==
    /\ phase = "manage" /\ mgmt.pc = "getBatch"
    /\ effects' = Append(effects, [op |-> "batches.retrieve", ok |-> response.ok,
                                   batch |-> batch])
    /\ mgmt' = IF ~response.ok THEN manageThrows(mgmt, "Failed to get batch")
               ELSE IF mgmt.request[1].path = "/batches/{id}"
               THEN manageResponds([mgmt EXCEPT !.batch = Some(batch)], batch)
               ELSE IF ~Truthy(batch.output_file_id)
               THEN manageThrows([mgmt EXCEPT !.batch = Some(batch)],
                                 "Batch has no output file")
               ELSE manageWithApiKey([mgmt EXCEPT !.batch = Some(batch)], "getBatchResults")
    /\ UNCHANGED <<pureVars, catalogVars, cachedApiKey, stage, served>>

\* cancelBatch: the POST of /v1/batches/{id}/cancel, the status check, the job answered.
cancelBatch(response, batch) ==
    /\ phase = "manage" /\ mgmt.pc = "cancelBatch"
    /\ effects' = Append(effects, [op |-> "batches.cancel", ok |-> response.ok])
    /\ mgmt' = IF response.ok THEN manageResponds(mgmt, batch)
               ELSE manageThrows(mgmt, "Failed to cancel batch")
    /\ UNCHANGED <<pureVars, catalogVars, cachedApiKey, stage, served>>

\* getBatchResults from the content fetch on: the status check, the text, the
\* split into lines and the parse of each.
getBatchResults(response, content) ==
    /\ phase = "manage" /\ mgmt.pc = "getBatchResults"
    /\ effects' = Append(effects, [op |-> "files.content", ok |-> response.ok,
                                   file_id |-> mgmt.batch[1].output_file_id[1],
                                   content |-> content])
    /\ mgmt' = IF ~response.ok THEN manageThrows(mgmt, "Failed to get batch results")
               ELSE IF parseResults(content) = None
               THEN manageThrows(mgmt, "Unexpected token in JSON")
               ELSE manageResponds(mgmt, parseResults(content)[1])
    /\ UNCHANGED <<pureVars, catalogVars, cachedApiKey, stage, served>>

\* The contents the output file of the retrieved job can have.
OutputFiles(batch) ==
    {OutputFile(batch.request_counts.total, failed, failedInOutput, trailingNewline) :
        failed \in {f \in SUBSET (0..(batch.request_counts.total - 1)) :
                        Cardinality(f) = batch.request_counts.failed},
        failedInOutput \in BOOLEAN, trailingNewline \in BOOLEAN}

\* The response has been returned: the invocation ends, the process stays.
manageInvocationEnds ==
    /\ phase = "manage" /\ mgmt.pc = "done"
    /\ mgmt' = ManageIdle
    /\ effects' = <<>>
    /\ UNCHANGED <<pureVars, catalogVars, cachedApiKey, stage, served>>

InitManage ==
    /\ phase = "manage"
    /\ gIn = None /\ gOut = None
    /\ counterTable = None /\ initialCount = 0
    /\ itemsTable = EmptyTable /\ imagesTable = EmptyTable
    /\ inv = [p \in Invocations |-> Idle]
    /\ allocLog = <<>> /\ allocFailures = 0 /\ deletes = 0
    /\ cachedApiKey = None /\ stage = StageIdle /\ effects = <<>> /\ served = 0
    /\ mgmt = ManageIdle /\ written = {}

NextManage ==
    \/ \E request \in ManageRequests : handler(request)
    \/ \E secret \in SecretResponses : manageGetOpenAIKey(secret)
    \/ \E response \in EndpointResponses : listBatches(response)
    \/ \E response \in EndpointResponses, batch \in Batches : getBatch(response, batch)
    \/ \E response \in EndpointResponses, batch \in Batches : cancelBatch(response, batch)
    \/ /\ mgmt.pc = "getBatchResults"
       /\ \E response \in EndpointResponses, content \in OutputFiles(mgmt.batch[1]) :
                getBatchResults(response, content)
    \/ manageInvocationEnds

SpecManage == InitManage /\ [][NextManage]_vars

----------------------------------------------------------------------------
(* Either of the two processes that call the AI service *)

InitAi == InitStage \/ InitManage

NextAi == NextStage \/ NextManage

SpecAi == InitAi /\ [][NextAi]_vars

----------------------------------------------------------------------------
(* groupImages as a function of its arguments *)

InitGroup ==
    /\ phase = "group"
    /\ gIn \in GroupInputs /\ gOut = None
    /\ counterTable = None /\ initialCount = 0
    /\ itemsTable = EmptyTable /\ imagesTable = EmptyTable
    /\ inv = [p \in Invocations |-> Idle]
    /\ allocLog = <<>> /\ allocFailures = 0 /\ deletes = 0
    /\ cachedApiKey = None /\ stage = StageIdle /\ effects = <<>> /\ served = 0
    /\ mgmt = ManageIdle /\ written = {}

NextGroup == callGroupImages

SpecGroup == InitGroup /\ [][NextGroup]_vars

RECURSIVE Flatten(_)
Flatten(groups) ==
    IF groups = <<>> THEN <<>> ELSE Head(groups).images \o Flatten(Tail(groups))

\* C4: when the counts are natural numbers and images.length = numItems *
\* viewsPerItem, groupImages returns numItems groups, group k has item_index k
\* and holds the images at positions [k*viewsPerItem, (k+1)*viewsPerItem) in
\* input order, and the groups laid end to end are the input list.
C4_ContiguousGroups ==
    (/\ gOut # None
     /\ gIn.numItems >= 0 /\ gIn.viewsPerItem >= 0
     /\ Len(gIn.images) = gIn.numItems * gIn.viewsPerItem) =>
        LET groups == gOut[1]
            v == gIn.viewsPerItem
        IN  /\ Len(groups) = gIn.numItems
            /\ \A g \in DOMAIN groups :
                    /\ groups[g].item_index = g - 1
                    /\ Len(groups[g].images) = v
                    /\ \A n \in 1..v : groups[g].images[n] = gIn.images[(g - 1) * v + n]
            /\ Flatten(groups) = gIn.images

\* Three items of two views each have been grouped.
C4_Witness ==
    /\ gOut # None
    /\ gIn.numItems = 3 /\ gIn.viewsPerItem = 2 /\ Len(gIn.images) = 6
    /\ Len(gOut[1]) = 3

----------------------------------------------------------------------------
(* Properties of the allocator and of creation *)

AllocatedIds == {allocLog[a].id : a \in DOMAIN allocLog}

\* C1: the identifiers returned to concurrent allocator calls are pairwise
\* distinct, and when no call failed the N identifiers returned are exactly
\* initial+1 .. initial+N.
C1_ConcurrentAllocationsDistinct ==
    /\ \A a, b \in DOMAIN allocLog : a # b => allocLog[a].id # allocLog[b].id
    /\ allocFailures = 0 =>
            AllocatedIds = (initialCount + 1)..(initialCount + Len(allocLog))

\* Both invocations hold an identifier at once, starting from an existing row.
C1_Witness ==
    /\ initialCount = 1
    /\ allocFailures = 0
    /\ \A p \in Invocations : inv[p].pc = "putItem"
    /\ \E p, q \in Invocations : inv[p].route = "create" /\ inv[q].route = "postItem"

\* C2: identifiers are returned in strictly increasing order, an allocation
\* returns a value above every count the row has held (so a value consumed by
\* a failed or abandoned attempt never comes back), the allocation on an
\* absent row returns 1, and no operation lowers the count.
C2_StrictlyIncreasingNeverReused ==
    /\ [](\A a, b \in DOMAIN allocLog : a < b => allocLog[a].id < allocLog[b].id)
    /\ [](\A a \in DOMAIN allocLog : allocLog[a].id <= CountOf(counterTable))
    /\ [][/\ CountOf(counterTable') >= CountOf(counterTable)
          /\ Len(allocLog') > Len(allocLog) =>
                LET id == allocLog'[Len(allocLog')].id
                IN  /\ id > CountOf(counterTable)
                    /\ counterTable = None => id = 1]_vars

\* An identifier was consumed by a failed creation and its row never written,
\* an item was deleted, and a later allocation returned a larger identifier.
C2_Witness ==
    /\ deletes >= 1
    /\ \E p \in Invocations :
        /\ inv[p].pc = "done" /\ inv[p].itemId # None
        /\ inv[p].response[1].statusCode = 500
        /\ inv[p].itemId[1] \notin DOMAIN itemsTable
        /\ \E a \in DOMAIN allocLog : allocLog[a].id > inv[p].itemId[1]

\* C3: an invocation holds an identifier only when the counter update
\* answered with the post-increment count, and that identifier is the count.
C3_NoIdentifierWithoutCount ==
    \A p \in Invocations :
        inv[p].itemId # None =>
            inv[p].attributes # None /\ inv[p].itemId[1] = inv[p].attributes[1].count

InvalidCreate(body) ==
    body.items = None \/ Len(body.items[1]) = 0 \/ ~Truthy(body.created_by)

\* C8: a creation request without created_by, or without items, is answered
\* 400 in the step that receives it, which leaves the counter row and both
\* tables as they were; it never holds an identifier.
C8_InvalidCreateRejectedBeforeAllocation ==
    /\ [](\A p \in Invocations :
            inv[p].route = "create" /\ InvalidCreate(inv[p].body) =>
                /\ inv[p].pc = "done" /\ inv[p].response[1].statusCode = 400
                /\ inv[p].itemId = None /\ inv[p].createdItems = <<>>
                /\ \A a \in DOMAIN allocLog : allocLog[a].by # p)
    /\ [][\A p \in Invocations :
            inv[p].pc = "idle" /\ inv'[p].route = "create" /\ InvalidCreate(inv'[p].body) =>
                UNCHANGED <<counterTable, itemsTable, imagesTable>>]_vars

\* A request without created_by was rejected while the other invocation was
\* allocating and writing.
C8_Witness ==
    \E p, q \in Invocations :
        /\ inv[p].route = "create" /\ inv[p].pc = "done"
        /\ inv[p].body.items # None /\ Len(inv[p].body.items[1]) > 0
        /\ inv[p].body.created_by = None
        /\ inv[p].response[1].statusCode = 400
        /\ inv[q].route = "create" /\ inv[q].createdItems # <<>>

\* C9: every item a creation request has pushed to createdItems (and returns
\* with 201) carries the staged item's item_index, title, description,
\* value_estimate, images and metadata, an item_id the allocator returned to
\* this invocation, created_at = updated_at and the request's created_by; the
\* row stored under that item_id is the same record for as long as it exists.
C9_CreatedItemMatchesStaged ==
    \A p \in Invocations :
        inv[p].route = "create" =>
            /\ inv[p].pc = "done" /\ inv[p].response[1].statusCode = 201 =>
                    /\ inv[p].response[1].items = inv[p].createdItems
                    /\ Len(inv[p].createdItems) = Len(inv[p].body.items[1])
            /\ \A k \in DOMAIN inv[p].createdItems :
                LET row == inv[p].createdItems[k]
                    staged == inv[p].body.items[1][k]
                IN  /\ row.item_index = staged.item_index
                    /\ row.title = staged.title
                    /\ row.description = staged.description
                    /\ row.value_estimate = staged.value_estimate
                    /\ row.images = staged.images
                    /\ row.metadata = staged.metadata
                    /\ \E a \in DOMAIN allocLog :
                            allocLog[a].id = row.item_id /\ allocLog[a].by = p
                    /\ row.created_at = row.updated_at
                    /\ row.created_at = inv[p].now
                    /\ row.created_by = inv[p].body.created_by[1]
                    /\ deletes = 0 => row.item_id \in DOMAIN itemsTable
                    /\ row.item_id \in DOMAIN itemsTable => itemsTable[row.item_id] = row

\* A two-item request completed with 201 while the other invocation created too.
C9_Witness ==
    \E p, q \in Invocations :
        /\ p # q /\ inv[q].itemId # None
        /\ inv[p].route = "create" /\ inv[p].pc = "done"
        /\ inv[p].response[1].statusCode = 201
        /\ Len(inv[p].response[1].items) = 2

----------------------------------------------------------------------------
(* Properties of staging *)

\* The request the running (or just answered) invocation is serving.
Serving == stage.pc # "idle"

SyncMode == stage.rev = "staged" \/ ~stage.body.use_batch
BatchMode == stage.rev = "batch" /\ stage.body.use_batch

InvalidStage(body) ==
    \/ body.images = None \/ Len(body.images[1]) = 0
    \/ body.num_items = None \/ body.num_items[1] = 0
    \/ body.views_per_item = None \/ body.views_per_item[1] = 0
    \/ Len(body.images[1]) # body.num_items[1] * body.views_per_item[1]

\* The external calls of the request, by kind, in the order they were issued.
EffectsOf(op) == SelectSeq(effects, LAMBDA e : e.op = op)
ChatEffects == EffectsOf("chat.completions")

\* C5: a staging request with no images, with num_items or views_per_item
\* missing or zero, or with images.length # num_items * views_per_item is
\* answered 400 in the step that receives it and has issued no external call:
\* no secret fetch, no chat completion, no object put, no file or batch call.
C5_InvalidStageRejectedBeforeAnyCall ==
    (Serving /\ InvalidStage(stage.body)) =>
        /\ stage.pc = "done"
        /\ stage.response # None /\ stage.response[1].statusCode = 400
        /\ effects = <<>>
        /\ stage.items = <<>> /\ stage.batchRequests = <<>>

\* A request whose counts do not multiply to the number of images was rejected
\* by a process that had served a request before.
C5_Witness ==
    /\ served = 2 /\ stage.pc = "done"
    /\ stage.body.images # None /\ Len(stage.body.images[1]) = 5
    /\ stage.body.num_items = Some(2) /\ stage.body.views_per_item = Some(3)
    /\ stage.response[1].statusCode = 400

\* The discovered metadata of a delivered item: the metadata field of the raw
\* details, and the weight and markings of the merged metadata of a staged item.
DiscoveredEmpty(item) ==
    /\ item.metadata.weight_grams = None
    /\ item.metadata.markings = <<>>

\* C6: when the chat completion for a group fails, no exception leaves
\* generateItemDetails (the item is delivered), and the item delivered has
\* title "Untitled Item", a value estimate of 0 to 0, empty discovered
\* metadata, and a description that ends with the disclaimer clause.
C6_FallbackCarriesDisclaimer ==
    Serving =>
        \A k \in DOMAIN ChatEffects :
            ~ChatEffects[k].ok =>
                /\ k \in DOMAIN stage.items
                /\ LET item == stage.items[k]
                   IN  /\ item.title = <<"Untitled Item">>
                       /\ item.value_estimate.min_value = 0
                       /\ item.value_estimate.max_value = 0
                       /\ DiscoveredEmpty(item)
                       /\ item.description[Len(item.description)] = DISCLAIMER_PHRASE

ValidStage(body) ==
    /\ ~InvalidStage(body)
    /\ body.num_items[1] >= 1 /\ body.views_per_item[1] >= 1

CredentialAvailable ==
    \A e \in DOMAIN effects : effects[e].op = "getSecretValue" => effects[e].ok

\* C7: a synchronous staging request that is valid and obtains the credential
\* never fails on account of its chat completions: the item of each group
\* asked so far has the AI's title when the call succeeded and "Untitled Item"
\* when it failed, and the answer is 200 with exactly num_items items.
C7_SyncStagingSurvivesAiFailures ==
    (Serving /\ SyncMode /\ ValidStage(stage.body) /\ CredentialAvailable) =>
        /\ Len(stage.items) = Len(ChatEffects)
        /\ \A k \in DOMAIN ChatEffects :
                stage.items[k].title =
                    IF ChatEffects[k].ok THEN <<"AI title for", ChatEffects[k].keys>>
                    ELSE <<"Untitled Item">>
        /\ stage.pc = "done" =>
                /\ stage.response[1].statusCode = 200
                /\ stage.response[1].items = stage.items
                /\ Len(stage.items) = stage.body.num_items[1]

\* Two items of three views: the call for item 0 succeeded, that for item 1
\* failed, and the request was answered 200.
C7_Witness ==
    /\ stage.pc = "done" /\ SyncMode
    /\ stage.body.num_items = Some(2) /\ stage.body.views_per_item = Some(3)
    /\ Len(ChatEffects) = 2 /\ ChatEffects[1].ok /\ ~ChatEffects[2].ok
    /\ stage.response[1].statusCode = 200

\* The image keys a batch request refers to: the last part of each image url.
requestKeys(req) ==
    LET content == req.body.messages[1].content
    IN  [n \in 1..(Len(content) - 1) |-> content[n + 1].image_url.url[4]]

Lines(blob) == SelectSeq(blob, LAMBDA x : x # Newline)

\* Every second element of the blob, and no other, is a newline.
NewlineDelimited(blob) ==
    \A n \in DOMAIN blob : (blob[n] = Newline) <=> (n % 2 = 0 /\ n < Len(blob))

\* The calls of the request other than the credential fetch.
BatchEffects == SelectSeq(effects, LAMBDA e : e.op # "getSecretValue")

\* C10: in batch mode with n groups there are n requests, request k (from 0)
\* has custom_id item_k and the image keys of group k; the blob put to object
\* storage is these n requests as n lines separated by newlines; the calls
\* are issued in the order put, file registration, batch creation, each only
\* after the one before succeeded, and the batch names the file id returned.
C10_BatchRequestsAndEffectOrder ==
    (Serving /\ BatchMode /\ ~InvalidStage(stage.body)) =>
        /\ Len(stage.batchRequests) = Len(stage.groups)
        /\ \A g \in DOMAIN stage.groups :
                /\ stage.batchRequests[g].custom_id = <<"item_", g - 1>>
                /\ requestKeys(stage.batchRequests[g]) = imageKeys(stage.groups[g])
        /\ \A e \in DOMAIN BatchEffects :
                /\ e <= 3
                /\ BatchEffects[e].op = <<"s3.putObject", "files.create", "batches.create">>[e]
                /\ e > 1 => BatchEffects[e - 1].ok
        /\ \A e \in DOMAIN BatchEffects :
                /\ BatchEffects[e].op = "s3.putObject" =>
                        LET blob == BatchEffects[e].body
                        IN  /\ NewlineDelimited(blob)
                            /\ Len(Lines(blob)) = Len(stage.groups)
                            /\ \A g \in DOMAIN stage.groups :
                                    Lines(blob)[g] = JSONstringify(stage.batchRequests[g])
                /\ BatchEffects[e].op = "batches.create" =>
                        BatchEffects[e].input_file_id = Some(BatchEffects[e - 1].id)

\* A batch of three groups was put, registered and created, and answered 200.
C10_Witness ==
    /\ stage.pc = "done" /\ BatchMode
    /\ Len(stage.groups) = 3
    /\ Len(BatchEffects) = 3 /\ BatchEffects[3].ok
    /\ stage.response[1].statusCode = 200
    /\ stage.response[1].processing_mode = "batch"

\* C11: a batch-mode request issues no chat completion, no job retrieval, no
\* listing and no result retrieval; whatever the number of groups it makes at
\* most one credential fetch, one put, one file registration and one batch
\* creation; and it is answered 200 with the id and status of the created job
\* in the step in which the batch creation succeeds, these three calls made.
C11_BatchSubmissionConstantCalls ==
    (Serving /\ BatchMode) =>
        /\ ChatEffects = <<>> /\ stage.items = <<>>
        /\ \A e \in DOMAIN effects :
                effects[e].op \in {"getSecretValue", "s3.putObject", "files.create",
                                   "batches.create"}
        /\ Len(EffectsOf("getSecretValue")) <= 1
        /\ Len(BatchEffects) <= 3
        /\ (stage.pc = "done" /\ stage.response[1].statusCode = 200) =>
                /\ Len(BatchEffects) = 3
                /\ LET last == effects[Len(effects)]
                   IN  /\ last.op = "batches.create" /\ last.ok
                       /\ stage.response[1].batch_id = last.batch.id
                       /\ stage.response[1].status = last.batch.status
        /\ (effects # <<>> /\ effects[Len(effects)].op = "batches.create"
            /\ effects[Len(effects)].ok) => stage.pc = "done"

\* The process fetched its credential and submitted a batch of one group in
\* four calls; C10's witness is a batch of three groups in as many.
C11_Witness ==
    /\ stage.pc = "done" /\ BatchMode
    /\ Len(stage.groups) = 1 /\ Len(effects) = 4
    /\ stage.response[1].statusCode = 200
    /\ stage.response[1].batch_id = "batch-2"

----------------------------------------------------------------------------
(* Properties of the batch calls and of the credential *)

\* The local state of the request the process is serving, staging or management.
Running == IF phase = "manage" THEN mgmt ELSE stage

BatchCalls ==
    {"s3.putObject", "files.create", "batches.create", "batches.list", "batches.retrieve",
     "batches.cancel", "files.content"}

\* C12: when the put or the registration of the batch file, the batch
\* creation, the listing, the retrieval or the cancellation of a job, or the
\* retrieval of the output file fails, it is the last call of the request and
\* the request is answered 500 with an error, with no item list and no result
\* body; after a failed file upload no batch creation is issued.
C12_BatchFailuresSurfaced ==
    /\ \A e \in DOMAIN effects :
            (effects[e].op \in BatchCalls /\ ~effects[e].ok) =>
                /\ e = Len(effects)
                /\ Running.pc = "done"
                /\ Running.response[1].statusCode = 500
                /\ "error" \in DOMAIN Running.response[1]
                /\ "items" \notin DOMAIN Running.response[1]
                /\ "body" \notin DOMAIN Running.response[1]
                /\ "batch_id" \notin DOMAIN Running.response[1]
    /\ (\E e \in DOMAIN effects :
            effects[e].op \in {"s3.putObject", "files.create"} /\ ~effects[e].ok) =>
                EffectsOf("batches.create") = <<>>

\* The retrieval of a job succeeded and that of its output file failed.
C12_Witness ==
    /\ phase = "manage" /\ mgmt.pc = "done"
    /\ Len(effects) >= 2
    /\ effects[Len(effects)].op = "files.content" /\ ~effects[Len(effects)].ok
    /\ mgmt.response[1].statusCode = 500

ResultsRequested ==
    /\ phase = "manage" /\ mgmt.pc # "idle"
    /\ mgmt.request[1].method \in {"GET", "POST"}
    /\ mgmt.request[1].path = "/batches/{id}/results"

\* C13: a results request for a job retrieved without an output file, in
\* whatever status, is answered with an error and issues no retrieval of file
\* content; and file content is retrieved only for a job that is completed and
\* has an output file.
C13_ResultsOnlyForCompletedWithOutput ==
    /\ (ResultsRequested /\ mgmt.batch # None /\ mgmt.batch[1].output_file_id = None) =>
            /\ mgmt.pc = "done" /\ mgmt.response[1].statusCode = 500
            /\ EffectsOf("files.content") = <<>>
    /\ EffectsOf("files.content") # <<>> =>
            /\ mgmt.batch # None
            /\ mgmt.batch[1].output_file_id # None
            /\ mgmt.batch[1].status = "completed"

\* C14: the results answered for a job of n requests with an output file are
\* n records, one for each custom_id item_0 .. item_(n-1), the requests the
\* service reports as failed included.
C14_OneResultPerRequest ==
    (ResultsRequested /\ mgmt.pc = "done" /\ mgmt.response[1].statusCode = 200) =>
        LET results == mgmt.response[1].body
            n == mgmt.batch[1].request_counts.total
        IN  /\ Len(results) = n
            /\ {results[r].custom_id : r \in DOMAIN results} =
                    {<<"item_", k>> : k \in 0..(n - 1)}

----------------------------------------------------------------------------
(* Properties of a creation that fails partway *)

FailedCreate(p) ==
    /\ inv[p].route = "create" /\ inv[p].pc = "done"
    /\ inv[p].response[1].statusCode = 500

WrittenBy(p) == {w \in written : w.by = p}
AllocatedTo(p) == {a \in DOMAIN allocLog : allocLog[a].by = p}

\* C15: the rows a creation request has written follow the loop with no gap:
\* every record before the current one has its item row and all its image
\* rows, the current record has at most its item row and a prefix of its image
\* rows, the records after it have nothing, and one identifier at most was
\* allocated per record reached.  When the request has failed at record i,
\* records 0..i-1 are the items pushed, and no later step allocates or writes
\* for it.
C15_FailureStopsCreationLoop ==
    /\ [](\A p \in Invocations :
            (inv[p].route = "create" /\ inv[p].body.items # None) =>
                LET items == inv[p].body.items[1]
                    i == inv[p].i
                IN  /\ \A w \in WrittenBy(p) : w.i <= i
                    /\ \A k \in 1..(i - 1) :
                            \A j \in 0..Len(items[k].images) :
                                [by |-> p, i |-> k, j |-> j] \in WrittenBy(p)
                    /\ \A w \in WrittenBy(p) :
                            (w.i = i /\ w.j > 0) =>
                                \A j \in 0..(w.j - 1) :
                                    [by |-> p, i |-> i, j |-> j] \in WrittenBy(p)
                    /\ Cardinality(AllocatedTo(p)) <= i
                    /\ FailedCreate(p) =>
                            /\ Len(inv[p].createdItems) = i - 1
                            /\ Cardinality(AllocatedTo(p)) >= i - 1)
    /\ [][\A p \in Invocations :
            FailedCreate(p) =>
                /\ inv'[p] = inv[p]
                /\ {w \in written' : w.by = p} = WrittenBy(p)
                /\ {a \in DOMAIN allocLog' : allocLog'[a].by = p} = AllocatedTo(p)]_vars

\* A request of two records failed on the second image row of its second
\* record: the first record is complete, the second has its item row and its
\* first image row, and the other invocation went on allocating.
C15_Witness ==
    \E p, q \in Invocations :
        /\ p # q /\ FailedCreate(p)
        /\ inv[p].i = 2 /\ inv[p].j = 2
        /\ WrittenBy(p) = {[by |-> p, i |-> 1, j |-> 0], [by |-> p, i |-> 1, j |-> 1],
                           [by |-> p, i |-> 2, j |-> 0], [by |-> p, i |-> 2, j |-> 1]}
        /\ AllocatedTo(q) # {}

\* C16: a creation request that failed partway is answered with an error
\* response of the handler that names the failure and carries the number of
\* items committed before it.
C16_FailureReportsCommittedCount ==
    \A p \in Invocations :
        FailedCreate(p) =>
            LET response == inv[p].response[1]
            IN  /\ "error" \in DOMAIN response
                /\ "thrown" \notin DOMAIN response
                /\ "items_created" \in DOMAIN response
                /\ response.items_created = Len(inv[p].createdItems)

IdsOf(p) == {allocLog[a].id : a \in AllocatedTo(p)}

\* q serves the request that failed in p, issued again.
Reissue(p, q) ==
    /\ p # q /\ FailedCreate(p)
    /\ inv[q].route = "create" /\ inv[q].body = inv[p].body

\* C17: when a creation request is reissued after it failed, no identifier of
\* the reissue is an identifier allocated to the failed attempt, whether that
\* one was written or not; the items the failed attempt had committed keep
\* their rows, and the reissue writes the same records under other identifiers.
C17_RetryNeverReusesIdentifier ==
    \A p, q \in Invocations :
        Reissue(p, q) =>
            /\ IdsOf(q) \cap IdsOf(p) = {}
            /\ inv[q].itemId # None => inv[q].itemId[1] \notin IdsOf(p)
            /\ \A k \in DOMAIN inv[q].createdItems :
                    inv[q].createdItems[k].item_id \notin IdsOf(p)
            /\ \A k \in DOMAIN inv[p].createdItems :
                    LET row == inv[p].createdItems[k]
                    IN  row.item_id \in DOMAIN itemsTable => itemsTable[row.item_id] = row

\* The first attempt committed its first record and failed on the second; the
\* reissue committed the first record again, and both rows are in the table.
C17_Witness ==
    \E p, q \in Invocations :
        /\ Reissue(p, q)
        /\ Len(inv[p].createdItems) = 1 /\ Len(inv[q].createdItems) = 1
        /\ LET first == inv[p].createdItems[1]
               again == inv[q].createdItems[1]
           IN  /\ first.item_id # again.item_id
               /\ first.item_index = again.item_index
               /\ {first.item_id, again.item_id} \subseteq DOMAIN itemsTable

\* This step issues a fetch from the secret store.
FetchesSecret ==
    /\ Len(effects') = Len(effects) + 1
    /\ effects'[Len(effects')].op = "getSecretValue"

\* C18: in either process, the secret store is asked only while nothing is
\* cached, a successful fetch fills the cache, the cached credential is never
\* replaced or dropped, and every other external call is made with the
\* credential cached: so a process makes at most one successful fetch, however
\* many groups and requests it serves.
C18_CredentialFetchedOnce ==
    /\ [][FetchesSecret => cachedApiKey = None]_vars
    /\ [][(FetchesSecret /\ effects'[Len(effects')].ok) => cachedApiKey' # None]_vars
    /\ [][cachedApiKey # None => cachedApiKey' = cachedApiKey]_vars
    /\ [](Len(EffectsOf("getSecretValue")) <= 1)
    /\ []((\E e \in DOMAIN effects : effects[e].op # "getSecretValue") =>
                cachedApiKey # None)

\* The second request of a staging process enriched two groups without asking
\* the secret store.
C18_Witness ==
    /\ phase = "stage" /\ served = 2 /\ stage.pc = "done"
    /\ cachedApiKey # None
    /\ Len(ChatEffects) = 2
    /\ EffectsOf("getSecretValue") = <<>>

\* C19: when the secret store answers with no value, or with a secret that has
\* no api_key, the fetch is the only external call of the request: no chat
\* completion and no other AI call is issued, no fallback item is produced,
\* and the staging or management request is answered 500 with an error.
C19_MissingCredentialSurfaced ==
    \A e \in DOMAIN effects :
        (effects[e].op = "getSecretValue" /\ ~effects[e].ok) =>
            /\ Len(effects) = 1
            /\ Running.pc = "done"
            /\ Running.response[1].statusCode = 500
            /\ "error" \in DOMAIN Running.response[1]
            /\ "items" \notin DOMAIN Running.response[1]
            /\ phase = "stage" => stage.items = <<>>
            /\ cachedApiKey = None

\* A valid synchronous request of two groups was answered 500 because the
\* secret has no api_key.
C19_Witness ==
    /\ phase = "stage" /\ stage.pc = "done" /\ stage.rev = "batch" /\ SyncMode
    /\ ValidStage(stage.body) /\ Len(stage.groups) = 2
    /\ effects = <<[op |-> "getSecretValue", ok |-> FALSE]>>
    /\ stage.response[1].statusCode = 500
    /\ stage.response[1].detail = "api_key not found in secret"

\* C20: when the chat completion of a group never answers, the fallback record
\* becomes the item of that group, and the synchronous request is in the end
\* answered by the handler.
C20_PendingCallTimesOutToFallback ==
    /\ (stage.pc = "pending") ~>
            (/\ Len(stage.items) >= stage.k
             /\ stage.items[stage.k].title = <<"Untitled Item">>)
    /\ (stage.pc = "pending") ~> (stage.pc = "done")

----------------------------------------------------------------------------
(* Properties of the descriptions and of the staged items delivered *)

Occurrences(seq, x) == Cardinality({n \in DOMAIN seq : seq[n] = x})

EndsWithDisclaimerOnce(description) ==
    /\ description # <<>>
    /\ description[Len(description)] = DISCLAIMER_PHRASE
    /\ Occurrences(description, DISCLAIMER_PHRASE) = 1

\* The staging request was answered 200 with a list of items.
StagedAnswer ==
    /\ phase = "stage" /\ stage.pc = "done"
    /\ stage.response[1].statusCode = 200
    /\ "items" \in DOMAIN stage.response[1]

\* The results request was answered 200 with the records of the output file.
ResultsAnswer ==
    /\ ResultsRequested /\ mgmt.pc = "done"
    /\ mgmt.response[1].statusCode = 200

\* The description in the message content of a record of a batch job.
recordDescription(record) ==
    JSONparse(cleanContent(record.response[1].body.choices[1].message.content))[1].description

\* The descriptions delivered to the caller by the answer in hand.
DeliveredDescriptions ==
    (IF StagedAnswer
     THEN {stage.response[1].items[k].description : k \in DOMAIN stage.response[1].items}
     ELSE {})
    \cup
    (IF ResultsAnswer
     THEN {recordDescription(mgmt.response[1].body[r]) :
                r \in {r \in DOMAIN mgmt.response[1].body :
                            mgmt.response[1].body[r].response # None}}
     ELSE {})

\* C21: every description delivered for an item group, by the synchronous
\* enrichment, by the fallback or in the results of a batch job, ends with
\* the disclaimer clause, which occurs in it once.
C21_EveryDescriptionEndsWithDisclaimer ==
    \A description \in DeliveredDescriptions : EndsWithDisclaimerOnce(description)

\* The caller's metadata, {} when the request has none.
GivenMetadata == IF stage.body.metadata = None THEN <<>> ELSE stage.body.metadata[1]

\* The discovered fields generateItemDetails returned for call k: those of the
\* model's JSON object, or those of the fallback record.
DiscoveredOf(k) ==
    IF ChatEffects[k].ok THEN [weight_grams |-> 5, markings |-> <<"925">>]
    ELSE [weight_grams |-> None, markings |-> <<>>]

\* C22: in synchronous staging the k-th item pushed (and returned) has
\* item_index k, counted from 0, and the image keys of group k, and its
\* metadata has the keys of the caller's metadata and of the discovered fields,
\* with the discovered value on every key both have.
C22_StagedItemShapeAndMerge ==
    (Serving /\ SyncMode) =>
        /\ StagedAnswer => stage.response[1].items = stage.items
        /\ \A k \in DOMAIN stage.items :
                LET item == stage.items[k]
                    given == GivenMetadata
                    found == DiscoveredOf(k)
                IN  /\ "item_index" \in DOMAIN item /\ item.item_index = k - 1
                    /\ "images" \in DOMAIN item
                    /\ item.images = imageKeys(stage.groups[k])
                    /\ DOMAIN item.metadata = DOMAIN given \cup DOMAIN found
                    /\ \A key \in DOMAIN found : item.metadata[key] = found[key]
                    /\ \A key \in DOMAIN given \ DOMAIN found :
                            item.metadata[key] = given[key]

ChatCallsIn(calls) == SelectSeq(calls, LAMBDA e : e.op = "chat.completions")

\* The call of the group at stage.k has been issued and has not completed.
CallInFlight == stage.pc \in {"chat", "pending"}

\* C23: synchronous staging calls the AI service for one group at a time in
\* the order of the groups: the k-th call made is the call for group k; while
\* a call is in flight it is the call for the group after those whose calls
\* have completed, each of which has its item pushed; a step completes one
\* call at most and only then is the next in flight; and while a call stays
\* pending no other call is made and no item is pushed.
C23_EnrichmentOneGroupAtATime ==
    /\ []((Serving /\ SyncMode) =>
            /\ Len(ChatEffects) <= Len(stage.groups)
            /\ \A k \in DOMAIN ChatEffects :
                    ChatEffects[k].keys = imageKeys(stage.groups[k])
            /\ CallInFlight =>
                    /\ stage.k = Len(ChatEffects) + 1
                    /\ Len(stage.items) = Len(ChatEffects))
    /\ [][Len(ChatCallsIn(effects')) > Len(ChatEffects) =>
                /\ Len(ChatCallsIn(effects')) = Len(ChatEffects) + 1
                /\ stage.pc = "chat" /\ stage.k = Len(ChatEffects) + 1
                /\ \/ stage'.pc = "done"
                   \/ /\ stage'.pc = "chat" /\ stage'.k = stage.k + 1
                      /\ Len(stage'.items) = stage.k]_vars
    /\ [][stage.pc = "pending" =>
                /\ effects' = effects
                /\ stage'.items = stage.items /\ stage'.k = stage.k]_vars

\* Of three groups the call for the first completed and the call for the
\* second is pending: no call for the third has been made.
C23_Witness ==
    /\ stage.pc = "pending" /\ SyncMode
    /\ Len(stage.groups) = 3 /\ stage.k = 2
    /\ Len(ChatEffects) = 1 /\ Len(stage.items) = 1

----------------------------------------------------------------------------
(* Properties of the rows a creation writes *)

\* The identifiers the allocator returned to p, in the order of its records.
IdsInOrder(log, p) == SelectSeq(log, LAMBDA a : a.by = p)
IdOfRecord(p, i) == IdsInOrder(allocLog, p)[i].id

\* The rows this step writes for p.
WritesNow(p) == {w \in written' : w.by = p} \ WrittenBy(p)

\* C24: every image row in the table carries the item_id of a record of a
\* creation request whose item row was written; a step writes a row for the
\* record the loop stands at only, after the identifier of that record was
\* allocated and none for a later one, the item row before every image row
\* and image row j after image row j-1, with the key of image j and the
\* identifier of the record; and the identifier of the next record is
\* allocated after every row of the records before it was written.
C24_AllocateThenItemThenImages ==
    /\ [](\A id \in DOMAIN imagesTable :
            \E p \in Invocations :
                /\ inv[p].route = "create"
                /\ \E i \in DOMAIN IdsInOrder(allocLog, p) :
                        /\ IdOfRecord(p, i) = imagesTable[id].item_id
                        /\ [by |-> p, i |-> i, j |-> 0] \in written)
    /\ [][\A p \in Invocations :
            inv[p].route = "create" =>
                /\ \A w \in WritesNow(p) :
                        /\ w.i = inv[p].i
                        /\ Len(IdsInOrder(allocLog, p)) = w.i
                        /\ inv[p].itemId = Some(IdOfRecord(p, w.i))
                        /\ w.j = 0 => \A v \in WrittenBy(p) : v.i < w.i
                        /\ w.j > 0 =>
                                /\ [by |-> p, i |-> w.i, j |-> w.j - 1] \in written
                                /\ \E id \in DOMAIN imagesTable' :
                                        /\ imagesTable'[id].item_id = IdOfRecord(p, w.i)
                                        /\ imagesTable'[id].s3_key_original =
                                                inv[p].body.items[1][w.i].images[w.j]
                /\ Len(IdsInOrder(allocLog', p)) > Len(IdsInOrder(allocLog, p)) =>
                        /\ Len(IdsInOrder(allocLog', p)) = inv[p].i
                        /\ \A k \in 1..(inv[p].i - 1) :
                                \A j \in 0..Len(inv[p].body.items[1][k].images) :
                                    [by |-> p, i |-> k, j |-> j] \in written]_vars

\* A request stands at the second image of its second record, with the item
\* row and the first image row of that record written, while the other
\* invocation has written too.
C24_Witness ==
    \E p, q \in Invocations :
        /\ p # q /\ WrittenBy(q) # {}
        /\ inv[p].route = "create" /\ inv[p].pc = "putImage"
        /\ inv[p].i = 2 /\ inv[p].j = 2
        /\ {[by |-> p, i |-> 2, j |-> 0], [by |-> p, i |-> 2, j |-> 1]} \subseteq written
        /\ \E id \in DOMAIN imagesTable : imagesTable[id].item_id = inv[p].itemId[1]

\* The creation request of p was answered 201.
Created(p) ==
    /\ inv[p].route = "create" /\ inv[p].pc = "done"
    /\ inv[p].response[1].statusCode = 201

ImageRowsOf(itemId) == {id \in DOMAIN imagesTable : imagesTable[id].item_id = itemId}

\* C25: once a creation request is answered 201, for each item it created the
\* images table holds as many rows with that item_id as the item has images,
\* one with the key of each image: no image write replaced a row written
\* before it.
C25_OneImageRowPerImage ==
    \A p \in Invocations :
        Created(p) =>
            \A k \in DOMAIN inv[p].createdItems :
                LET row == inv[p].createdItems[k]
                IN  /\ Cardinality(ImageRowsOf(row.item_id)) = Len(row.images)
                    /\ \A n \in DOMAIN row.images :
                            \E id \in ImageRowsOf(row.item_id) :
                                imagesTable[id].s3_key_original = row.images[n]

----------------------------------------------------------------------------
(* Properties of staging as a whole *)

\* C26: no step of a staging request, in either mode and to whatever end,
\* changes the counter row, the items table or the images table, or takes an
\* identifier from the allocator; and neither the items staged nor the
\* response carry an item identifier.
C26_StagingLeavesCatalogUnchanged ==
    /\ [][phase = "stage" =>
            UNCHANGED <<counterTable, itemsTable, imagesTable, allocLog, allocFailures,
                        written>>]_vars
    /\ [](phase = "stage" =>
            /\ counterTable = None /\ allocLog = <<>>
            /\ itemsTable = EmptyTable /\ imagesTable = EmptyTable
            /\ \A k \in DOMAIN stage.items : "item_id" \notin DOMAIN stage.items[k]
            /\ stage.response # None =>
                    /\ "item_id" \notin DOMAIN stage.response[1]
                    /\ "items" \in DOMAIN stage.response[1] =>
                            \A k \in DOMAIN stage.response[1].items :
                                "item_id" \notin DOMAIN stage.response[1].items[k])

\* The process has answered a synchronous request with three staged items
\* and, before or after it, served another request.
C26_Witness ==
    /\ StagedAnswer /\ stage.rev = "staged" /\ served = 2
    /\ Len(stage.response[1].items) = 3
    /\ counterTable = None /\ itemsTable = EmptyTable /\ imagesTable = EmptyTable

\* The request in hand passed the four validations of handleStageItems.
Accepted == Serving /\ stageValidation(stage.body) = None

\* C27: a staging request that passes validation has num_items >= 1 and
\* views_per_item >= 1 and is grouped into num_items groups of
\* views_per_item images each; a synchronous one answered 200 returns
\* num_items items.
C27_AcceptedCountsArePositive ==
    Accepted =>
        /\ stage.body.num_items[1] >= 1 /\ stage.body.views_per_item[1] >= 1
        /\ Len(stage.groups) = stage.body.num_items[1]
        /\ \A g \in DOMAIN stage.groups :
                /\ stage.groups[g].images # <<>>
                /\ Len(stage.groups[g].images) = stage.body.views_per_item[1]
        /\ StagedAnswer =>
                /\ stage.response[1].items # <<>>
                /\ Len(stage.response[1].items) = stage.body.num_items[1]

----------------------------------------------------------------------------
(* Properties of bulk and single-item creation side by side *)

\* The item rows written by the two creation routes.
ItemWrites == {w \in written : w.j = 0}

\* C28: under every interleaving of bulk creations and single-item
\* creations, the item rows written have pairwise distinct item_ids, a step
\* that writes an item row writes it under an item_id the table does not
\* hold, and no step replaces a row of the items table.
C28_BulkAndSingleNeverCollide ==
    /\ [](\A v, w \in ItemWrites :
            v # w => IdOfRecord(v.by, v.i) # IdOfRecord(w.by, w.i))
    /\ [][\A p \in Invocations :
            \A w \in WritesNow(p) :
                w.j = 0 =>
                    /\ inv[p].itemId = Some(IdOfRecord(p, w.i))
                    /\ IdOfRecord(p, w.i) \notin DOMAIN itemsTable
                    /\ IdOfRecord(p, w.i) \in DOMAIN itemsTable']_vars
    /\ [][\A id \in DOMAIN itemsTable :
            id \in DOMAIN itemsTable' => itemsTable'[id] = itemsTable[id]]_vars

\* A single-item creation took its identifier between the two of a bulk
\* creation, and the three rows are in the table.
C28_Witness ==
    \E p, q \in Invocations :
        /\ inv[p].route = "create" /\ inv[q].route = "postItem"
        /\ {[by |-> p, i |-> 1, j |-> 0], [by |-> p, i |-> 2, j |-> 0],
            [by |-> q, i |-> 1, j |-> 0]} \subseteq written
        /\ IdOfRecord(p, 1) < IdOfRecord(q, 1) /\ IdOfRecord(q, 1) < IdOfRecord(p, 2)
        /\ {IdOfRecord(p, 1), IdOfRecord(q, 1), IdOfRecord(p, 2)} \subseteq DOMAIN itemsTable

----------------------------------------------------------------------------
(* Properties of the credential cache after a failed fetch *)

\* The credentials the secret store can return.
StoredCredentials ==
    {secret.SecretString[1].api_key :
        secret \in {r \in SecretResponses : ~r.rejected /\ r.SecretString # None}}

\* C29: in either process, a fetch that fails (the store rejects, has no
\* value, or has a secret without api_key or with an empty one) leaves the
\* cache unset; the cache changes only in a step that makes a successful
\* fetch; it holds nothing but a non-empty credential the store returned;
\* and while it is unset no call of getOpenAIKey returns without a fetch, so
\* that the process is never past a getOpenAIKey with nothing cached.
C29_FailedFetchLeavesCacheUnset ==
    /\ [][(FetchesSecret /\ ~effects'[Len(effects')].ok) =>
                cachedApiKey = None /\ cachedApiKey' = None]_vars
    /\ [][cachedApiKey' # cachedApiKey =>
                FetchesSecret /\ effects'[Len(effects')].ok]_vars
    /\ [](cachedApiKey # None =>
                cachedApiKey[1] # "" /\ cachedApiKey \in StoredCredentials)
    /\ [](cachedApiKey = None => Running.pc \in {"idle", "done", "getSecretValue"})
    /\ [][(cachedApiKey = None /\ Running.pc = "idle" /\ effects' = <<>>) =>
                /\ cachedApiKey' = None
                /\ (IF phase = "manage" THEN mgmt' ELSE stage').pc \in {"done", "getSecretValue"}]_vars

\* The second request of a batch-management process found nothing cached,
\* asked the secret store and was answered without an api_key: the cache is
\* still unset.
C29_Witness ==
    /\ phase = "manage" /\ served = 2 /\ mgmt.pc = "done"
    /\ effects = <<[op |-> "getSecretValue", ok |-> FALSE]>>
    /\ mgmt.response[1].detail = "api_key not found in secret"
    /\ cachedApiKey = None

----------------------------------------------------------------------------
(* Properties of the fields a creation request stamps on its rows *)

\* The row carries the auction_id of the request when that is non-empty, and
\* no auction_id otherwise.
CarriesAuctionOf(row, body) ==
    IF Truthy(body.auction_id)
    THEN "auction_id" \in DOMAIN row /\ row.auction_id = body.auction_id[1]
    ELSE "auction_id" \notin DOMAIN row

\* C30: every item row and every image row of a bulk creation request, in the
\* tables and in the items it returns, has an auction_id exactly when the
\* request has a non-empty one, and then that one; its item rows have the
\* created_by of the request; and all its rows have the one created_at the
\* request took before its loop.
C30_RowsCarryRequestFields ==
    \A p \in Invocations :
        inv[p].route = "create" =>
            /\ \A id \in IdsOf(p) \cap DOMAIN itemsTable :
                    /\ CarriesAuctionOf(itemsTable[id], inv[p].body)
                    /\ itemsTable[id].created_by = inv[p].body.created_by[1]
                    /\ itemsTable[id].created_at = inv[p].now
            /\ \A k \in DOMAIN inv[p].createdItems :
                    /\ CarriesAuctionOf(inv[p].createdItems[k], inv[p].body)
                    /\ inv[p].createdItems[k].created_by = inv[p].body.created_by[1]
                    /\ inv[p].createdItems[k].created_at = inv[p].now
            /\ \A id \in DOMAIN imagesTable :
                    imagesTable[id].item_id \in IdsOf(p) =>
                        /\ CarriesAuctionOf(imagesTable[id], inv[p].body)
                        /\ imagesTable[id].created_at = inv[p].now

\* A request with an empty auction_id was answered 201 and its item row and
\* image row have no auction_id, while an image row of the other request,
\* made for an auction, has that auction's.
C30_Witness ==
    \E p, q \in Invocations :
        /\ Created(p) /\ inv[p].body.auction_id = Some("")
        /\ inv[p].createdItems[1].item_id \in DOMAIN itemsTable
        /\ "auction_id" \notin DOMAIN itemsTable[inv[p].createdItems[1].item_id]
        /\ \E id \in DOMAIN imagesTable :
                /\ imagesTable[id].item_id \in IdsOf(p)
                /\ "auction_id" \notin DOMAIN imagesTable[id]
        /\ inv[q].route = "create" /\ inv[q].body.auction_id = Some("auction-1")
        /\ \E id \in DOMAIN imagesTable :
                /\ imagesTable[id].item_id \in IdsOf(q)
                /\ imagesTable[id].auction_id = "auction-1"

====
